---------------------------- MODULE Spec2Model ----------------------------
(***************************************************************************)
(* A model of the analytics core of github-pm:                             *)
(*   - StatusAnalyzer.extract_status and analyze_flow_health               *)
(*     (src/src/github_pm/status_analyzer.py),                             *)
(*   - CommitAnalyzer.parse_conventional_commit, extract_issue_references  *)
(*     and analyze_commits (src/src/github_pm/commit_analyzer.py),         *)
(*   - RoadmapGenerator.analyze_milestone                                  *)
(*     (src/workflows/planning/roadmap_generator.py),                      *)
(*   - PeriodComparator (src/workflows/trend_analysis/compare_periods.py), *)
(*   - PeriodComparisonGenerator._calculate_changes                        *)
(*     (src/workflows/code_analysis/period_comparison.py),                 *)
(*   - VelocityTracker._calculate_trends and the loop of analyze_cycle     *)
(*     (src/workflows/metrics/velocity_tracker.py),                        *)
(*   - the loop of PeriodComparisonGenerator.analyze_period,               *)
(*   - extract_status_from_labels of the daily summary                     *)
(*     (src/workflows/planning/daily_summary.py),                          *)
(*   - DataCollector.create_snapshot, list_snapshots and load_snapshot     *)
(*     (src/src/github_pm/data_collector.py),                              *)
(*   - IssueOrganizer.organize_by_repository                               *)
(*     (src/src/github_pm/organizer.py),                                   *)
(*   - DashboardManager.is_running, start and stop, one system call at a   *)
(*     time (src/workflows/dashboard/dashboard_manager.py).                *)
(*                                                                         *)
(* Python strings are sequences of one-character strings, so that          *)
(* str.lower, str.strip, str.split, slicing and the two regular            *)
(* expressions are computed character by character.  Python dicts are      *)
(* functions whose DOMAIN is the set of keys present; dict.get is Get.     *)
(* An Optional value is a sequence of length 0 (None) or 1.                *)
(***************************************************************************)
EXTENDS Integers, Sequences, FiniteSets, TLC

VARIABLES
    issue,      \* the issue handed to extract_status
    status,     \* what extract_status returned for it (NotRun before the call)
    summary_status, \* what extract_status_from_labels returned for it
    message,    \* the commit message handed to the commit classifier
    op,         \* which classifier function has been applied to message
    parsed,     \* the result of parse_conventional_commit (Optional record)
    refs,       \* the result of extract_issue_references (list of ints)
    commits,    \* the commit list handed to analyze_commits
    locals,     \* analyze_commits' accumulators as its last invocation left them
    results,    \* the aggregates analyze_commits returned for commits, in call order
    counts,     \* status_distribution["counts"] handed to analyze_flow_health
    health,     \* the flow-health report (Optional record)
    milestone,  \* the milestone handed to analyze_milestone
    velocity,   \* the velocity metrics handed to analyze_milestone
    milestone_analysis,  \* what analyze_milestone did with them (Optional record)
    comparator,         \* the PeriodComparator as __init__ left it
    baseline_snapshot,  \* the earlier snapshot handed to compare
    current_snapshot,   \* the later snapshot handed to compare
    comparison,         \* what compare returned (Optional record)
    current_period,     \* the period_data of the current period
    previous_period,    \* the period_data of the period before it
    period_changes,     \* what _calculate_changes returned for them (Optional record)
    cycle_data_list,    \* the cycles of a velocity report, the latest first
    trends,             \* what _calculate_trends returned for them (Optional)
    repo_analyses,      \* per repository, what analyze_commits made of its commits
    period_pending,     \* the repositories the loop of analyze_period has yet to meet
    period_data,        \* the period_data of analyze_period
    period_returned,    \* what analyze_period returned (Optional)
    cycle_pending,      \* the repositories the loop of analyze_cycle has yet to meet
    cycle_data,         \* the cycle_data of analyze_cycle
    cycle_returned,     \* what analyze_cycle returned (Optional)
    base_data_dir,      \* the snapshot directory of the DataCollector
    today,              \* the day it is, as an index of Dates
    snapshot_calls,     \* the create_snapshot calls made so far, oldest first
    answer,             \* what the last list_snapshots or load_snapshot gave (Optional)
    issues_given,       \* the issues handed to organize_by_repository
    organized,          \* what organize_by_repository returned (Optional)
    pid_file,           \* the content of .dashboard.pid (Optional: <<>> when absent)
    alive,              \* the PIDs of the running server processes
    spawned,            \* how many server processes have been spawned
    calls,              \* per invocation of the dashboard manager, where it is
    calls_made          \* how many start and stop calls have begun

vars == <<issue, status, summary_status, message, op, parsed, refs, commits, locals, results,
          counts, health, milestone, velocity, milestone_analysis,
          comparator, baseline_snapshot, current_snapshot, comparison,
          current_period, previous_period, period_changes,
          cycle_data_list, trends,
          repo_analyses, period_pending, period_data, period_returned,
          cycle_pending, cycle_data, cycle_returned,
          base_data_dir, today, snapshot_calls, answer, issues_given, organized,
          pid_file, alive, spawned, calls, calls_made>>

statusVars == <<issue, status, summary_status>>
commitVars == <<message, op, parsed, refs>>
aggVars    == <<commits, locals, results>>
flowVars   == <<counts, health>>
milestoneVars == <<milestone, velocity, milestone_analysis>>

trendVars == <<comparator, baseline_snapshot, current_snapshot, comparison>>

changesVars == <<current_period, previous_period, period_changes>>

velocityVars == <<cycle_data_list, trends>>

mergeVars == <<repo_analyses, period_pending, period_data, period_returned,
               cycle_pending, cycle_data, cycle_returned>>

\* the state of the workflows built on the two analyzers
collectorVars == <<base_data_dir, today, snapshot_calls, answer>>
organizerVars == <<issues_given, organized>>
dashboardVars == <<pid_file, alive, spawned, calls, calls_made>>
toolVars == <<collectorVars, organizerVars, dashboardVars>>
workflowVars == <<milestoneVars, trendVars, changesVars, velocityVars, mergeVars>>

NotRun == "not_run"

-----------------------------------------------------------------------------
(* Python primitives *)

\* dict.get(key, default)
Get(d, k, default) == IF k \in DOMAIN d THEN d[k] ELSE default

\* x in list
InList(x, xs) == \E i \in 1..Len(xs) : xs[i] = x

\* the first of two attempts that succeeds (a failed attempt is <<>>); the
\* second is looked at only when the first has failed
OrElse(first, second) == IF first # <<>> THEN first ELSE second

UpperAlpha == <<"A","B","C","D","E","F","G","H","I","J","K","L","M",
                "N","O","P","Q","R","S","T","U","V","W","X","Y","Z">>
LowerAlpha == <<"a","b","c","d","e","f","g","h","i","j","k","l","m",
                "n","o","p","q","r","s","t","u","v","w","x","y","z">>

\* str.lower() on one character
LowerChar(c) ==
    IF \E i \in 1..26 : UpperAlpha[i] = c
    THEN LowerAlpha[CHOOSE i \in 1..26 : UpperAlpha[i] = c]
    ELSE c

\* str.lower()
Lower(s) == [i \in 1..Len(s) |-> LowerChar(s[i])]

\* the characters str.strip() removes and the regular expressions' \s matches
Whitespace == {" ", "\t", "\n", "\r", "\f"}

Digits == <<"0","1","2","3","4","5","6","7","8","9">>
IsDigit(c) == \E i \in 1..10 : Digits[i] = c
DigitValue(c) == (CHOOSE i \in 1..10 : Digits[i] = c) - 1

\* s[a:b] with 1-based inclusive positions; empty when a > b
Slice(s, a, b) == IF a > b THEN <<>> ELSE SubSeq(s, a, b)

\* s[:n]
Prefix(s, n) == IF Len(s) <= n THEN s ELSE SubSeq(s, 1, n)

\* s.startswith(p) from position i (1-based)
StartsAt(s, i, p) ==
    /\ i + Len(p) - 1 <= Len(s)
    /\ \A k \in 1..Len(p) : s[i + k - 1] = p[k]

-----------------------------------------------------------------------------
(* StatusAnalyzer.extract_status *)

STATUS_PATTERNS ==
  << [status |-> "backlog", patterns |-> <<
        <<"b", "a", "c", "k", "l", "o", "g">>,
        <<"s", "t", "a", "t", "u", "s", ":", "b", "a", "c", "k", "l", "o", "g">>,
        <<"s", "t", "a", "t", "u", "s", ":", " ", "b", "a", "c", "k", "l", "o", "g">> >>],
     [status |-> "ready", patterns |-> <<
        <<"r", "e", "a", "d", "y">>,
        <<"s", "t", "a", "t", "u", "s", ":", "r", "e", "a", "d", "y">>,
        <<"s", "t", "a", "t", "u", "s", ":", " ", "r", "e", "a", "d", "y">>,
        <<"t", "o", " ", "d", "o">>,
        <<"t", "o", "d", "o">> >>],
     [status |-> "in_progress", patterns |-> <<
        <<"i", "n", " ", "p", "r", "o", "g", "r", "e", "s", "s">>,
        <<"s", "t", "a", "t", "u", "s", ":", "i", "n", " ", "p", "r", "o", "g", "r", "e", "s", "s">>,
        <<"s", "t", "a", "t", "u", "s", ":", " ", "i", "n", " ", "p", "r", "o", "g", "r", "e", "s", "s">>,
        <<"i", "n", "-", "p", "r", "o", "g", "r", "e", "s", "s">>,
        <<"s", "t", "a", "t", "u", "s", ":", "i", "n", "-", "p", "r", "o", "g", "r", "e", "s", "s">>,
        <<"w", "i", "p">>,
        <<"w", "o", "r", "k", " ", "i", "n", " ", "p", "r", "o", "g", "r", "e", "s", "s">> >>],
     [status |-> "in_review", patterns |-> <<
        <<"i", "n", " ", "r", "e", "v", "i", "e", "w">>,
        <<"s", "t", "a", "t", "u", "s", ":", "i", "n", " ", "r", "e", "v", "i", "e", "w">>,
        <<"s", "t", "a", "t", "u", "s", ":", " ", "i", "n", " ", "r", "e", "v", "i", "e", "w">>,
        <<"r", "e", "v", "i", "e", "w">>,
        <<"s", "t", "a", "t", "u", "s", ":", "r", "e", "v", "i", "e", "w">> >>],
     [status |-> "done", patterns |-> <<
        <<"d", "o", "n", "e">>,
        <<"s", "t", "a", "t", "u", "s", ":", "d", "o", "n", "e">>,
        <<"s", "t", "a", "t", "u", "s", ":", " ", "d", "o", "n", "e">>,
        <<"c", "o", "m", "p", "l", "e", "t", "e", "d">> >>] >>

NoStatus == "no_match"

\* label_names = [l.get("name", "").lower() for l in labels]
label_names(iss) ==
    LET labels == Get(iss, "labels", <<>>)
    IN  [i \in 1..Len(labels) |-> Lower(Get(labels[i], "name", <<>>))]

\* A slip that walks the labels first and returns the group of the first
\* label that belongs to any group (the result then follows label order).
RECURSIVE ScanLabelsFirst(_, _, _)
ScanLabelsFirst(names, g, p) ==
    IF names = <<>> THEN NoStatus
    ELSE IF \E k \in 1..Len(STATUS_PATTERNS) :
                InList(names[1], STATUS_PATTERNS[k].patterns)
         THEN STATUS_PATTERNS[CHOOSE k \in 1..Len(STATUS_PATTERNS) :
                    InList(names[1], STATUS_PATTERNS[k].patterns)].status
         ELSE ScanLabelsFirst(Tail(names), g, p)

\* for status, patterns in STATUS_PATTERNS.items():
\*     for pattern in patterns:
\*         if pattern in label_names: return status
\* from group g, pattern p on; NoStatus when the loops fall through
RECURSIVE ScanPatterns(_, _, _)
ScanPatterns(names, g, p) ==
    IF g > Len(STATUS_PATTERNS) THEN NoStatus
    ELSE IF p > Len(STATUS_PATTERNS[g].patterns) THEN ScanPatterns(names, g + 1, 1)
    ELSE IF InList(STATUS_PATTERNS[g].patterns[p], names)
         THEN STATUS_PATTERNS[g].status
         ELSE ScanPatterns(names, g, p + 1)

extract_status(iss) ==
    LET found == ScanPatterns(label_names(iss), 1, 1)
    IN  IF found # NoStatus THEN found
        ELSE IF Get(iss, "state", "UNKNOWN") = "CLOSED" THEN "done"
        ELSE "backlog"

-----------------------------------------------------------------------------
(* extract_status_from_labels (src/workflows/planning/daily_summary.py) *)

\* sub in s, for two strings
Contains(s, sub) == \E i \in 1..(Len(s) + 1) : StartsAt(s, i, sub)

\* any(p in l for p in patterns for l in names)
AnyContains(names, patterns) ==
    \E i \in 1..Len(names) : \E p \in patterns : Contains(names[i], p)

\* the substrings looked for, in the order of lines 90-97
ReviewMarks == {<<"s", "t", "a", "t", "u", "s", ":", "r", "e", "v", "i", "e", "w">>, <<"s", "t", "a", "t", "u", "s", ":", "i", "n", " ", "r", "e", "v", "i", "e", "w">>, <<"i", "n", " ", "r", "e", "v", "i", "e", "w">>}
ProgressMarks ==
    {<<"s", "t", "a", "t", "u", "s", ":", "p", "r", "o", "g", "r", "e", "s", "s">>, <<"s", "t", "a", "t", "u", "s", ":", "i", "n", " ", "p", "r", "o", "g", "r", "e", "s", "s">>, <<"s", "t", "a", "t", "u", "s", ":", "w", "i", "p">>,
     <<"i", "n", " ", "p", "r", "o", "g", "r", "e", "s", "s">>, <<"w", "i", "p">>}
ReadyMarks == {<<"s", "t", "a", "t", "u", "s", ":", "r", "e", "a", "d", "y">>, <<"r", "e", "a", "d", "y">>}

\* extract_status_from_labels(issue)
extract_status_from_labels(iss) ==
    IF Get(iss, "state", "UNKNOWN") = "CLOSED" THEN "done"
    ELSE IF AnyContains(label_names(iss), ReviewMarks) THEN "in_review"
    ELSE IF AnyContains(label_names(iss), ProgressMarks) THEN "in_progress"
    ELSE IF AnyContains(label_names(iss), ReadyMarks) THEN "ready"
    ELSE "backlog"

-----------------------------------------------------------------------------
(* The issues the status classifier is run on *)

MaxLabels == 2

LabelNamePool ==
    { <<"r", "e", "a", "d", "y">>,
      <<"W", "I", "P">>,
      <<"S", "t", "a", "t", "u", "s", ":", "R", "e", "a", "d", "y">>,
      <<"b", "a", "c", "k", "l", "o", "g">>,
      <<"R", "e", "v", "i", "e", "w">>,
      <<"i", "n", " ", "r", "e", "v", "i", "e", "w">>,
      <<"d", "o", "n", "e">>,
      <<"b", "u", "g">> }

\* a label dict, with or without its "name" key
LabelPool == { [name |-> n] : n \in LabelNamePool } \cup { <<>> }

LabelLists == UNION { [1..n -> LabelPool] : n \in 0..MaxLabels }

Issues ==
    { [state |-> s, labels |-> ls] : s \in {"OPEN", "CLOSED"}, ls \in LabelLists }
    \cup { [labels |-> ls] : ls \in LabelLists }
    \cup { [state |-> s] : s \in {"OPEN", "CLOSED"} }

IdleIssue == [state |-> "OPEN"]

StatusInit ==
    /\ issue \in Issues
    /\ status = NotRun
    /\ summary_status = NotRun

StatusIdle ==
    /\ issue = IdleIssue
    /\ status = NotRun
    /\ summary_status = NotRun

ExtractStatus ==
    /\ status = NotRun
    /\ status' = extract_status(issue)
    /\ UNCHANGED <<issue, summary_status>>

\* extract_status_from_labels(issue), of the daily summary
ExtractStatusFromLabels ==
    /\ summary_status = NotRun
    /\ summary_status' = extract_status_from_labels(issue)
    /\ UNCHANGED <<issue, status>>

-----------------------------------------------------------------------------
(* str.split("\n")[0] and str.strip() *)

\* message.split("\n")[0]: the text before the first newline
FirstLine(s) ==
    IF \E i \in 1..Len(s) : s[i] = "\n"
    THEN Slice(s, 1, (CHOOSE i \in 1..Len(s) :
                        s[i] = "\n" /\ \A j \in 1..(i - 1) : s[j] # "\n") - 1)
    ELSE s

\* str.strip(): leading and trailing whitespace removed
Strip(s) ==
    LET keep == {i \in 1..Len(s) : s[i] \notin Whitespace}
    IN  IF keep = {} THEN <<>>
        ELSE Slice(s, CHOOSE i \in keep : \A j \in keep : i <= j,
                      CHOOSE i \in keep : \A j \in keep : j <= i)

-----------------------------------------------------------------------------
(* CommitAnalyzer.CONVENTIONAL_COMMIT_PATTERN, matched at the start of a     *)
(* string the way the backtracking matcher does it.  A failed match is <<>>. *)

CONVENTIONAL_COMMIT_TYPES ==
    << <<"f", "e", "a", "t">>,
       <<"f", "i", "x">>,
       <<"d", "o", "c", "s">>,
       <<"s", "t", "y", "l", "e">>,
       <<"r", "e", "f", "a", "c", "t", "o", "r">>,
       <<"p", "e", "r", "f">>,
       <<"t", "e", "s", "t">>,
       <<"c", "h", "o", "r", "e">>,
       <<"c", "i">>,
       <<"b", "u", "i", "l", "d">>,
       <<"r", "e", "v", "e", "r", "t">> >>

\* :\s*(?P<description>.+)$ at position p (re.MULTILINE: "." stops at a
\* newline and "$" matches before one).  \s* is greedy and gives characters
\* back until "." finds one it can take.
MatchColon(line, p) ==
    IF p > Len(line) \/ line[p] # ":" THEN <<>>
    ELSE
      LET isWs(i) == i <= Len(line) /\ line[i] \in Whitespace
          wsEnd  == CHOOSE e \in (p + 1)..(Len(line) + 1) :
                        /\ \A j \in (p + 1)..(e - 1) : isWs(j)
                        /\ ~isWs(e)
          starts == {d \in (p + 1)..wsEnd : d <= Len(line) /\ line[d] # "\n"}
      IN  IF starts = {} THEN <<>>
          ELSE
            LET d == CHOOSE x \in starts : \A y \in starts : y <= x
                e == CHOOSE x \in d..Len(line) :
                        /\ \A j \in d..x : line[j] # "\n"
                        /\ (x = Len(line) \/ line[x + 1] = "\n")
            IN  << Slice(line, d, e) >>

\* the groups so far, given the match of the rest
WithBreaking(rest, breaking) ==
    IF rest = <<>> THEN <<>>
    ELSE << [breaking |-> breaking, description |-> rest[1]] >>

\* (?P<breaking>!)? and the rest, at position p: first with the "!", then
\* without it
MatchBreaking(line, p) ==
    OrElse(WithBreaking(IF p <= Len(line) /\ line[p] = "!"
                        THEN MatchColon(line, p + 1) ELSE <<>>, TRUE),
           WithBreaking(MatchColon(line, p), FALSE))

\* the groups so far, given the match of the rest
WithScope(rest, scope) ==
    IF rest = <<>> THEN <<>>
    ELSE << [scope |-> scope, breaking |-> rest[1].breaking,
             description |-> rest[1].description] >>

\* (?:\((?P<scope>[^)]+)\))? and the rest, at position p: first with the
\* group (up to the first ")", at least one character inside), then without
MatchScope(line, p) ==
    LET closes == {q \in (p + 1)..Len(line) : line[q] = ")"}
        q      == CHOOSE x \in closes : \A y \in closes : x <= y
    IN  OrElse(IF p <= Len(line) /\ line[p] = "(" /\ closes # {} /\ q > p + 1
               THEN WithScope(MatchBreaking(line, q + 1),
                              << Slice(line, p + 1, q - 1) >>)
               ELSE <<>>,
               WithScope(MatchBreaking(line, p), <<>>))

\* the groups of a whole match, given the match of the rest
WithType(rest, t) ==
    IF rest = <<>> THEN <<>>
    ELSE << [type |-> t, scope |-> rest[1].scope, breaking |-> rest[1].breaking,
             description |-> rest[1].description] >>

\* ^(?P<type>feat|fix|...): the alternatives in order, from alternative k on
RECURSIVE MatchType(_, _)
MatchType(line, k) ==
    IF k > Len(CONVENTIONAL_COMMIT_TYPES) THEN <<>>
    ELSE OrElse(IF StartsAt(line, 1, CONVENTIONAL_COMMIT_TYPES[k])
                THEN WithType(MatchScope(line, Len(CONVENTIONAL_COMMIT_TYPES[k]) + 1),
                              CONVENTIONAL_COMMIT_TYPES[k])
                ELSE <<>>,
                MatchType(line, k + 1))

\* CONVENTIONAL_COMMIT_PATTERN.match(line)
ConventionalMatch(line) == MatchType(line, 1)

\* a slip that takes the first line as it stands, whitespace kept
first_line_unstripped(msg) == FirstLine(msg)

\* first_line = message.split("\n")[0].strip()
first_line_of(msg) == Strip(FirstLine(msg))

\* the dict returned for a match on first_line, None (<<>>) for no match
ParsedCommit(match, first_line) ==
    IF match # <<>>
    THEN << [type        |-> match[1].type,
             scope       |-> match[1].scope,
             breaking    |-> match[1].breaking,
             description |-> Strip(match[1].description),
             raw         |-> first_line] >>
    ELSE <<>>

\* match = CONVENTIONAL_COMMIT_PATTERN.match(first_line) and what follows
ParseFirstLine(first_line) == ParsedCommit(ConventionalMatch(first_line), first_line)

\* CommitAnalyzer.parse_conventional_commit: None is <<>>
parse_conventional_commit(msg) == ParseFirstLine(first_line_of(msg))

-----------------------------------------------------------------------------
(* CommitAnalyzer.ISSUE_PATTERN and extract_issue_references *)

\* (?:fixes?|closes?|resolves?|refs?|see)? in the order the matcher tries it:
\* each alternative with its optional "s" first, and last the skipped group
ISSUE_VERB_ALTERNATIVES ==
    << <<"f", "i", "x", "e", "s">>,
       <<"f", "i", "x", "e">>,
       <<"c", "l", "o", "s", "e", "s">>,
       <<"c", "l", "o", "s", "e">>,
       <<"r", "e", "s", "o", "l", "v", "e", "s">>,
       <<"r", "e", "s", "o", "l", "v", "e">>,
       <<"r", "e", "f", "s">>,
       <<"r", "e", "f">>,
       <<"s", "e", "e">>,
       <<>> >>

\* re.IGNORECASE comparison of the text at position i with a literal
StartsAtIgnoreCase(s, i, p) ==
    /\ i + Len(p) - 1 <= Len(s)
    /\ \A k \in 1..Len(p) : LowerChar(s[i + k - 1]) = p[k]

\* int("<digits>")
RECURSIVE DigitsToInt(_)
DigitsToInt(ds) ==
    IF ds = <<>> THEN 0
    ELSE 10 * DigitsToInt(SubSeq(ds, 1, Len(ds) - 1)) + DigitValue(ds[Len(ds)])

\* \s*#(\d+) at position q: the position after the match and group 1
MatchHashDigits(s, q) ==
    LET h == CHOOSE e \in q..(Len(s) + 1) :
                /\ \A j \in q..(e - 1) : s[j] \in Whitespace
                /\ (e > Len(s) \/ s[e] \notin Whitespace)
    IN  IF h + 1 > Len(s) \/ s[h] # "#" \/ ~IsDigit(s[h + 1]) THEN <<>>
        ELSE LET e == CHOOSE x \in (h + 1)..Len(s) :
                        /\ \A j \in (h + 1)..x : IsDigit(s[j])
                        /\ (x = Len(s) \/ ~IsDigit(s[x + 1]))
             IN  << [stop |-> e + 1, digits |-> Slice(s, h + 1, e)] >>

\* a slip that makes the verb mandatory: the skipped group is never tried
RECURSIVE MatchIssueVerbRequired(_, _, _)
MatchIssueVerbRequired(s, p, k) ==
    IF k >= Len(ISSUE_VERB_ALTERNATIVES) THEN <<>>
    ELSE
      OrElse(IF StartsAtIgnoreCase(s, p, ISSUE_VERB_ALTERNATIVES[k])
             THEN MatchHashDigits(s, p + Len(ISSUE_VERB_ALTERNATIVES[k]))
             ELSE <<>>,
             MatchIssueVerbRequired(s, p, k + 1))

\* ISSUE_PATTERN matched at position p, from alternative k on
RECURSIVE MatchIssueAt(_, _, _)
MatchIssueAt(s, p, k) ==
    IF k > Len(ISSUE_VERB_ALTERNATIVES) THEN <<>>
    ELSE
      OrElse(IF StartsAtIgnoreCase(s, p, ISSUE_VERB_ALTERNATIVES[k])
             THEN MatchHashDigits(s, p + Len(ISSUE_VERB_ALTERNATIVES[k]))
             ELSE <<>>,
             MatchIssueAt(s, p, k + 1))

\* ISSUE_PATTERN.findall(message): the leftmost match from pos on, then on
\* from where it ended
RECURSIVE FindAllIssues(_, _)

\* with m the match at pos: group 1 and the search resumed where the match
\* ended, or the search resumed one character on when there is no match
ResumeSearch(s, pos, m) ==
    IF m = <<>> THEN FindAllIssues(s, pos + 1)
    ELSE << m[1].digits >> \o FindAllIssues(s, m[1].stop)

FindAllIssues(s, pos) ==
    IF pos > Len(s) THEN <<>>
    ELSE ResumeSearch(s, pos, MatchIssueAt(s, pos, 1))

\* [int(num) for num in matches]
IntsOf(matches) == [i \in 1..Len(matches) |-> DigitsToInt(matches[i])]

\* CommitAnalyzer.extract_issue_references
extract_issue_references(msg) == IntsOf(FindAllIssues(msg, 1))

-----------------------------------------------------------------------------
(* The commit messages the classifier is run on *)

ConvLead ==
    { <<>>,
      <<" ">> }
ConvHead ==
    { <<"f", "e", "a", "t">>,
      <<"f", "i", "x">>,
      <<"c", "h", "o", "r", "e">>,
      <<"F", "e", "a", "t">>,
      <<"f", "i", "x", "u", "p">> }
ConvScope ==
    { <<>>,
      <<"(", "a", ")">>,
      <<"(", ")">>,
      <<"(", "a">>,
      <<"(", "a", ":", "b", ")">>,
      <<"(", "a", "!", ")">> }
ConvBang ==
    { <<>>,
      <<"!">> }
ConvSep ==
    { <<":">>,
      <<":", " ">>,
      <<>>,
      <<" ", ":">> }
ConvDesc ==
    { <<>>,
      <<"x">>,
      <<"y", "!", ":", " ", "z">>,
      <<"#", "7">> }
ConvTail ==
    { <<>>,
      <<" ">>,
      <<"\r", "\n">>,
      <<"\n", "f", "i", "x", "!", ":", " ", "q">>,
      <<"\n", "\n", "c", "l", "o", "s", "e", "s", " ", "#", "4", "2">> }

\* first lines built as lead type scope ! separator description, then a tail
ConventionalMessages ==
    { l \o h \o s \o b \o c \o d \o t :
        l \in ConvLead, h \in ConvHead, s \in ConvScope, b \in ConvBang,
        c \in ConvSep, d \in ConvDesc, t \in ConvTail }

RefVerbs ==
    { <<>>,
      <<"s", "e", "e">>,
      <<"F", "i", "x", "e", "s">> }
RefGaps ==
    { <<>>,
      <<" ">>,
      <<"\n">> }
RefTokens ==
    { <<"#", "1">>,
      <<"#", "0", "2">>,
      <<"#", "x">> }

MaxSegments == 2

RefSegments == { v \o g \o t : v \in RefVerbs, g \in RefGaps, t \in RefTokens }

\* up to n segments "verb gap #digits" one after the other
RECURSIVE RefMessagesOf(_)
RefMessagesOf(n) ==
    IF n = 0 THEN { <<>> }
    ELSE LET shorter == RefMessagesOf(n - 1)
         IN  shorter \cup { m \o g : m \in shorter, g \in RefSegments }

Messages == ConventionalMessages \cup RefMessagesOf(MaxSegments)

CommitInit ==
    /\ message \in Messages
    /\ op = NotRun
    /\ parsed = <<>>
    /\ refs = <<>>

CommitIdle ==
    /\ message = <<>>
    /\ op = NotRun
    /\ parsed = <<>>
    /\ refs = <<>>

ParseConventionalCommit ==
    /\ op = NotRun
    /\ op' = "parse_conventional_commit"
    /\ parsed' = parse_conventional_commit(message)
    /\ UNCHANGED <<message, refs>>

ExtractIssueReferences ==
    /\ op = NotRun
    /\ op' = "extract_issue_references"
    /\ refs' = extract_issue_references(message)
    /\ UNCHANGED <<message, parsed>>

-----------------------------------------------------------------------------
(* collections.Counter, defaultdict(int) and sorted(): a dict is the        *)
(* sequence of its [key, n] items in insertion order                        *)

\* counter[key] += 1
Incr(counter, key) ==
    IF \E i \in 1..Len(counter) : counter[i].key = key
    THEN [i \in 1..Len(counter) |->
            IF counter[i].key = key
            THEN [key |-> key, n |-> counter[i].n + 1]
            ELSE counter[i]]
    ELSE Append(counter, [key |-> key, n |-> 1])

\* the sequence without its i-th item
Without(seq, i) == SubSeq(seq, 1, i - 1) \o SubSeq(seq, i + 1, Len(seq))

\* Counter.most_common(): by count, largest first; equal counts keep their
\* insertion order
RECURSIVE most_common(_)
most_common(counter) ==
    IF counter = <<>> THEN <<>>
    ELSE LET i == CHOOSE x \in 1..Len(counter) :
                    /\ \A y \in 1..Len(counter) : counter[y].n <= counter[x].n
                    /\ \A y \in 1..(x - 1) : counter[y].n < counter[x].n
         IN  << counter[i] >> \o most_common(Without(counter, i))

\* a slip that keeps the first n keys seen
first_n_seen(counter, n) == Prefix(counter, n)

\* Counter.most_common(n)
most_common_n(counter, n) == Prefix(most_common(counter), n)

\* the characters of the model in code point order
CodePointOrder ==
    <<"\t", "\n", "\r", " ", "!", "#", "(", ")", ",", "-", ".", "/",
      "0", "1", "2", "3", "4", "5", "6", "7", "8", "9", ":",
      "A", "B", "C", "D", "E", "F", "G", "H", "I", "J", "K", "L", "M",
      "N", "O", "P", "Q", "R", "S", "T", "U", "V", "W", "X", "Y", "Z",
      "a", "b", "c", "d", "e", "f", "g", "h", "i", "j", "k", "l", "m",
      "n", "o", "p", "q", "r", "s", "t", "u", "v", "w", "x", "y", "z">>

Ord(c) == CHOOSE i \in 1..Len(CodePointOrder) : CodePointOrder[i] = c

\* a < b on str
StrLess(a, b) ==
    \E i \in 1..(Len(b)) :
        /\ \A j \in 1..(i - 1) : j <= Len(a) /\ a[j] = b[j]
        /\ (i > Len(a) \/ Ord(a[i]) < Ord(b[i]))

\* sorted(daily_commits.items()): by key, ascending
RECURSIVE sorted_items(_)
sorted_items(items) ==
    IF items = <<>> THEN <<>>
    ELSE LET i == CHOOSE x \in 1..Len(items) :
                    \A y \in 1..Len(items) :
                        y = x \/ StrLess(items[x].key, items[y].key)
         IN  << items[i] >> \o sorted_items(Without(items, i))

\* a / b as an exact fraction in lowest terms (the code computes a float)
RECURSIVE Gcd(_, _)
Gcd(a, b) == IF b = 0 THEN a ELSE Gcd(b, a % b)

Fraction(a, b) ==
    LET g == Gcd(a, b) IN [num |-> a \div g, den |-> b \div g]

\* f * k
FractionTimes(f, k) == Fraction(f.num * k, f.den)

-----------------------------------------------------------------------------
(* CommitAnalyzer.analyze_commits *)

EmptyDict == <<>>

AuthorUnknown == "Unknown"

\* a slip that counts only the commits that carry a message
TotalWithMessage(cs) ==
    Cardinality({i \in 1..Len(cs) :
                    "message" \in DOMAIN Get(cs[i], "commit", EmptyDict)})

\* total_commits = len(commits)
TotalCommits(cs) == Len(cs)

\* a slip that keeps the accumulators of the previous invocation
StaleLocals(previous) ==
    IF previous # <<>> THEN previous[1]
    ELSE [conventional_commits |-> 0, commit_types |-> <<>>,
          commit_scopes |-> <<>>, breaking_changes |-> <<>>,
          issue_references |-> <<>>, authors |-> <<>>,
          daily_commits |-> <<>>, parsed_commits |-> <<>>]

\* the accumulators every invocation starts from, whatever an earlier
\* invocation left behind
FreshLocals(previous) ==
    [conventional_commits |-> 0, commit_types |-> <<>>,
     commit_scopes |-> <<>>, breaking_changes |-> <<>>,
     issue_references |-> <<>>, authors |-> <<>>,
     daily_commits |-> <<>>, parsed_commits |-> <<>>]

\* for issue_num in issues: issue_references[issue_num] += 1
RECURSIVE CountIssues(_, _)
CountIssues(counter, issues) ==
    IF issues = <<>> THEN counter
    ELSE CountIssues(Incr(counter, Head(issues)), Tail(issues))

\* a slip that buckets every commit by day, dated or not
CountDayAlways(daily, date) == Incr(daily, Prefix(date, 10))

\* if date: daily_commits[date[:10]] += 1
CountDay(daily, date) ==
    IF date # <<>> THEN Incr(daily, Prefix(date, 10)) ELSE daily

\* the loop body from "if parsed:" on, with the values it has bound so far
Accumulate(acc, sha, author, date, msg, conv, issues) ==
        [conventional_commits |->
            IF conv # <<>> THEN acc.conventional_commits + 1
            ELSE acc.conventional_commits,
         commit_types |->
            IF conv # <<>> THEN Incr(acc.commit_types, conv[1].type)
            ELSE acc.commit_types,
         commit_scopes |->
            IF conv # <<>> /\ conv[1].scope # <<>>
            THEN Incr(acc.commit_scopes, conv[1].scope[1])
            ELSE acc.commit_scopes,
         breaking_changes |->
            IF conv # <<>> /\ conv[1].breaking
            THEN Append(acc.breaking_changes,
                        [sha |-> Prefix(sha, 7), message |-> conv[1].raw,
                         author |-> author, date |-> date])
            ELSE acc.breaking_changes,
         issue_references |-> CountIssues(acc.issue_references, issues),
         authors |-> Incr(acc.authors, author),
         daily_commits |-> CountDay(acc.daily_commits, date),
         parsed_commits |->
            Append(acc.parsed_commits,
                   [sha |-> Prefix(sha, 7), author |-> author, date |-> date,
                    message |-> FirstLine(msg), full_message |-> msg,
                    conventional |-> conv, issues |-> issues])]

\* the loop body from the parse on, with the fields read off the commit
ParseAndAccumulate(acc, sha, author, date, msg) ==
    Accumulate(acc, sha, author, date, msg,
               parse_conventional_commit(msg), extract_issue_references(msg))

\* commit_data = commit.get("commit", {}) and the fields read off it
ReadAndAccumulate(acc, commit, commit_data) ==
    ParseAndAccumulate(acc,
        Get(commit, "sha", <<>>),
        Get(Get(commit_data, "author", EmptyDict), "name", AuthorUnknown),
        Get(Get(commit_data, "author", EmptyDict), "date", <<>>),
        Get(commit_data, "message", <<>>))

\* one pass of the loop body over a commit
ProcessCommit(acc, commit) ==
    ReadAndAccumulate(acc, commit, Get(commit, "commit", EmptyDict))

\* for commit in commits: ...
RECURSIVE ProcessCommits(_, _)
ProcessCommits(acc, cs) ==
    IF cs = <<>> THEN acc
    ELSE ProcessCommits(ProcessCommit(acc, Head(cs)), Tail(cs))

\* a slip that leaves out the guard on an empty list and the factor 100
PercentageUnscaled(conventional, total) ==
    IF total > 0 THEN Fraction(conventional, total) ELSE Fraction(1, 1)

\* (conventional_commits / total_commits * 100) if total_commits > 0 else 0.
\* The quotient is kept as an exact fraction in lowest terms: the rounding of
\* Python's binary floats is not modelled.
ConventionalPercentage(conventional, total) ==
    IF total > 0 THEN FractionTimes(Fraction(conventional, total), 100)
    ELSE Fraction(0, 1)

TopScopes == 10
TopIssues == 20

\* the dict analyze_commits returns
Aggregate(acc, total_commits) ==
    [total_commits           |-> total_commits,
     conventional_commits    |-> acc.conventional_commits,
     conventional_percentage |->
        ConventionalPercentage(acc.conventional_commits, total_commits),
     commit_types            |-> most_common(acc.commit_types),
     commit_scopes           |-> most_common_n(acc.commit_scopes, TopScopes),
     breaking_changes        |-> acc.breaking_changes,
     issue_references        |-> most_common_n(acc.issue_references, TopIssues),
     authors                 |-> most_common(acc.authors),
     daily_commits           |-> sorted_items(acc.daily_commits),
     commits                 |-> acc.parsed_commits]

\* the accumulators once the loop has run over cs
LocalsAfter(previous, cs) == ProcessCommits(FreshLocals(previous), cs)

\* what analyze_commits(cs) hands back, its loop having left the
\* accumulators acc: it has no raise statement, so it always returns
Returned(acc, cs) ==
    [outcome |-> "returned", value |-> Aggregate(acc, TotalCommits(cs))]

\* analyze_commits(cs) entered with the accumulators an earlier call left
analyze_commits(previous, cs) == Returned(LocalsAfter(previous, cs), cs)

-----------------------------------------------------------------------------
(* The commit lists analyze_commits is run on *)

Sha1 == <<"a", "b", "c", "1", "2", "3", "4", "d", "e", "f">>
Sha2 == <<"0", "0", "0", "0", "0", "0", "0">>

Date1Morning == <<"2", "0", "2", "5", "-", "0", "1", "-", "0", "1", "T",
                  "1", "0", ":", "0", "0", ":", "0", "0", "Z">>
Date1Night   == <<"2", "0", "2", "5", "-", "0", "1", "-", "0", "1", "T",
                  "2", "3", ":", "5", "9", ":", "5", "9", "Z">>
Date0        == <<"2", "0", "2", "4", "-", "1", "2", "-", "3", "1", "T",
                  "0", "8", ":", "0", "0", ":", "0", "0", "Z">>

MsgBreaking == <<"f", "e", "a", "t", "(", "a", ")", "!", ":", " ", "x", "\n", "\n",
                 "c", "l", "o", "s", "e", "s", " ", "#", "4", "2">>
MsgFix      == <<"f", "i", "x", ":", " ", "y", " ", "#", "7", ",", " ",
                 "s", "e", "e", " ", "#", "7">>
MsgPlain    == <<"u", "p", "d", "a", "t", "e", " ", "d", "o", "c", "s">>

\* a breaking conventional commit closing an issue
CommitBreaking ==
    [sha |-> Sha1,
     commit |-> [message |-> MsgBreaking,
                 author |-> [name |-> "alice", date |-> Date1Morning]]]
\* a conventional commit, later the same day, naming one issue twice
CommitFix ==
    [sha |-> Sha2,
     commit |-> [message |-> MsgFix,
                 author |-> [name |-> "bob", date |-> Date1Night]]]
\* a non-conventional commit whose author has no name and an empty date
CommitPlain ==
    [sha |-> Sha1,
     commit |-> [message |-> MsgPlain, author |-> [date |-> <<>>]]]
\* a commit record with no message field, dated the day before
CommitNoMessage ==
    [sha |-> Sha2,
     commit |-> [author |-> [name |-> "alice", date |-> Date0]]]
\* a record with no "commit" object at all
CommitBare == [sha |-> Sha1]

CommitPool == {CommitBreaking, CommitFix, CommitPlain, CommitNoMessage, CommitBare}

\* the scopes of the commits of a busy period
ScopeLetters == <<"a", "b", "c", "d", "e", "f", "g", "h", "i", "j", "k", "l">>

\* str(n), for n < 100
Decimal(n) ==
    IF n < 10 THEN <<Digits[n + 1]>>
    ELSE <<Digits[(n \div 10) + 1], Digits[(n % 10) + 1]>>

\* " #n" for every n of issue_nums
RECURSIVE Hashes(_)
Hashes(issue_nums) ==
    IF issue_nums = <<>> THEN <<>>
    ELSE <<" ", "#">> \o Decimal(Head(issue_nums)) \o Hashes(Tail(issue_nums))

\* a commit "fix(<scope>): x #n #m ..."
BusyCommit(scope, issue_nums) ==
    [sha |-> Sha2,
     commit |-> [message |-> <<"f", "i", "x", "(">> \o scope \o <<")", ":", " ", "x">>
                                \o Hashes(issue_nums),
                 author |-> [name |-> "bob", date |-> Date1Night]]]

\* n commits, the i-th in the i-th scope and naming the issues 2i-1 and 2i,
\* followed when again > 0 by one more in the scope of the again-th that names
\* its second issue once more
BusyList(n, again) ==
    [i \in 1..n |-> BusyCommit(<<ScopeLetters[i]>>, <<2 * i - 1, 2 * i>>)]
        \o (IF again > 0 THEN << BusyCommit(<<ScopeLetters[again]>>, <<2 * again>>) >>
            ELSE <<>>)

\* lists with as many scopes and issues as the aggregate keeps, and with more
BusyLists ==
    { BusyList(n, again) : n \in {TopScopes, TopScopes + 1, TopScopes + 2},
                           again \in {0, 1, TopScopes, TopScopes + 2} }

MaxCommits == 2

CommitLists == UNION { [1..n -> CommitPool] : n \in 0..MaxCommits }

\* the lists analysed by the calls made in between
OtherLists == { <<CommitBreaking, CommitFix>>, <<CommitNoMessage>> }

MaxRuns == 2

AggInit ==
    /\ commits \in CommitLists \cup {l \in BusyLists : Len(l) > TopScopes}
    /\ locals = <<>>
    /\ results = <<>>

AggIdle ==
    /\ commits = <<>>
    /\ locals = <<>>
    /\ results = <<>>

\* analyze_commits(commits); entered_after remembers the accumulators the
\* invocation before this one had left
AnalyzeCommits ==
    /\ Len(results) < MaxRuns
    /\ \E acc \in { LocalsAfter(locals, commits) } :
          /\ results' = Append(results,
                               [entered_after |-> locals] @@ Returned(acc, commits))
          /\ locals' = << acc >>
    /\ UNCHANGED commits

\* analyze_commits on another list, its result dropped
AnalyzeOther ==
    /\ Len(results) < MaxRuns
    /\ \E other \in OtherLists :
          /\ other # commits
          /\ locals' = << LocalsAfter(locals, other) >>
    /\ UNCHANGED <<commits, results>>

-----------------------------------------------------------------------------
(* StatusAnalyzer.analyze_flow_health.  A formatted string is its template  *)
(* with the values put into it.                                             *)

\* a slip that puts the newest recommendation first
ReportNewestFirst(found, type, severity, msg, recommendation) ==
    [bottlenecks     |-> Append(found.bottlenecks,
                                [type |-> type, severity |-> severity,
                                 message |-> msg]),
     recommendations |-> <<recommendation>> \o found.recommendations]

\* bottlenecks.append({...}); recommendations.append(...)
Report(found, type, severity, msg, recommendation) ==
    [bottlenecks     |-> Append(found.bottlenecks,
                                [type |-> type, severity |-> severity,
                                 message |-> msg]),
     recommendations |-> Append(found.recommendations, recommendation)]

\* a slip that fires on ready >= in_progress * 3
ReadyPileupInclusive(found, ready, in_progress) ==
    IF ready >= in_progress * 3 /\ ready > 5
    THEN Report(found, "ready_pileup", "high",
                [text |-> "{} issues 'Ready' but only {} 'In Progress'",
                 args |-> <<ready, in_progress>>],
                [text |-> "Pick up more 'Ready' work - you have {} groomed issues waiting",
                 args |-> <<ready>>])
    ELSE found

\* if ready > in_progress * 3 and ready > 5
CheckReadyPileup(found, ready, in_progress) ==
    IF ready > in_progress * 3 /\ ready > 5
    THEN Report(found, "ready_pileup", "high",
                [text |-> "{} issues 'Ready' but only {} 'In Progress'",
                 args |-> <<ready, in_progress>>],
                [text |-> "Pick up more 'Ready' work - you have {} groomed issues waiting",
                 args |-> <<ready>>])
    ELSE found

\* a slip that does not look at in_review
NoReviewsUnchecked(found, in_progress, in_review) ==
    IF in_progress > 5
    THEN Report(found, "no_reviews", "medium",
                [text |-> "{} issues 'In Progress' but none 'In Review'",
                 args |-> <<in_progress>>],
                [text |-> "No issues in review - remember to create PRs when work is done",
                 args |-> <<>>])
    ELSE found

\* if in_progress > 5 and in_review == 0
CheckNoReviews(found, in_progress, in_review) ==
    IF in_progress > 5 /\ in_review = 0
    THEN Report(found, "no_reviews", "medium",
                [text |-> "{} issues 'In Progress' but none 'In Review'",
                 args |-> <<in_progress>>],
                [text |-> "No issues in review - remember to create PRs when work is done",
                 args |-> <<>>])
    ELSE found

\* if in_review > 5
CheckReviewBottleneck(found, in_review) ==
    IF in_review > 5
    THEN Report(found, "review_bottleneck", "high",
                [text |-> "{} issues stuck 'In Review'", args |-> <<in_review>>],
                [text |-> "Review bottleneck - prioritize reviewing the {} pending PRs",
                 args |-> <<in_review>>])
    ELSE found

\* if backlog > ready * 5 and ready < 3
CheckGroomingNeeded(found, backlog, ready) ==
    IF backlog > ready * 5 /\ ready < 3
    THEN Report(found, "grooming_needed", "medium",
                [text |-> "{} issues in 'Backlog' but only {} 'Ready'",
                 args |-> <<backlog, ready>>],
                [text |-> "Need grooming session - move backlog issues to 'Ready'",
                 args |-> <<>>])
    ELSE found

\* ideal_wip = 3
ideal_wip == 3

\* a slip that counts the ready issues as work in progress
WipTotalWithReady(ready, in_progress, in_review) == ready + in_progress + in_review

\* wip_total = in_progress + in_review
WipTotal(ready, in_progress, in_review) == in_progress + in_review

WipRecommendation(wip_total) ==
    [text |-> "WIP too high ({} items) - focus on finishing before starting new work",
     args |-> <<wip_total>>]

\* the WIP check and the returned dict
FlowReport(found, wip_total, ready, in_progress, in_review) ==
    [wip_total       |-> wip_total,
     wip_health      |-> IF wip_total <= ideal_wip THEN "healthy" ELSE "overloaded",
     bottlenecks     |-> found.bottlenecks,
     recommendations |->
        IF wip_total > ideal_wip
        THEN Append(found.recommendations, WipRecommendation(wip_total))
        ELSE found.recommendations,
     flow_ratio      |-> [ready |-> ready, in_progress |-> in_progress,
                          in_review |-> in_review]]

\* the four checks in the order of the code, then the WIP check
FlowHealthOf(ready, in_progress, in_review, backlog) ==
    FlowReport(
        CheckGroomingNeeded(
            CheckReviewBottleneck(
                CheckNoReviews(
                    CheckReadyPileup([bottlenecks |-> <<>>, recommendations |-> <<>>],
                                     ready, in_progress),
                    in_progress, in_review),
                in_review),
            backlog, ready),
        WipTotal(ready, in_progress, in_review),
        ready, in_progress, in_review)

\* StatusAnalyzer.analyze_flow_health, on status_distribution["counts"]
analyze_flow_health(cnt) ==
    FlowHealthOf(Get(cnt, "ready", 0), Get(cnt, "in_progress", 0),
                 Get(cnt, "in_review", 0), Get(cnt, "backlog", 0))

-----------------------------------------------------------------------------
(* The status counts analyze_flow_health is run on *)

MaxCount == 10
MaxBacklog == 11
DoneCounts == {0, 1}

\* dict(status_counts): a status is a key when at least one issue has it
CountsDict(backlog, ready, in_progress, in_review, done) ==
    LET n == [backlog |-> backlog, ready |-> ready, in_progress |-> in_progress,
              in_review |-> in_review, done |-> done]
    IN  [k \in {x \in DOMAIN n : n[x] > 0} |-> n[k]]

FlowInit ==
    /\ \E backlog \in 0..MaxBacklog, ready \in 0..MaxCount,
          in_progress \in 0..MaxCount, in_review \in 0..MaxCount,
          done \in DoneCounts :
          counts = CountsDict(backlog, ready, in_progress, in_review, done)
    /\ health = <<>>

FlowIdle ==
    /\ counts = <<>>
    /\ health = <<>>

AnalyzeFlowHealth ==
    /\ health = <<>>
    /\ health' = << analyze_flow_health(counts) >>
    /\ UNCHANGED counts

-----------------------------------------------------------------------------
(* RoadmapGenerator.analyze_milestone.  Floats are exact fractions, and a    *)
(* date is known by its distance in days from the clock.                     *)

\* a < b, for fractions with positive denominators
FractionLess(a, b) == a.num * b.den < b.num * a.den

\* max(a, b)
FractionMax(a, b) == IF FractionLess(a, b) THEN b ELSE a

\* timedelta.days of a span of f days: the whole days, rounded down
Floor(f) == f.num \div f.den

\* the 0.5 of line 120
MinIssuesPerWeek == [num |-> 1, den |-> 2]

\* a slip that takes the velocity as it comes
UnclampedVelocity(v) == v.issues_per_week

\* issues_per_week = max(velocity["issues_per_week"], 0.5)
ClampedVelocity(v) == FractionMax(v.issues_per_week, MinIssuesPerWeek)

\* weeks_remaining = remaining / issues_per_week if issues_per_week > 0 else 0
WeeksRemaining(remaining, issues_per_week) ==
    IF issues_per_week.num > 0
    THEN Fraction(remaining * issues_per_week.den, issues_per_week.num)
    ELSE Fraction(0, 1)

\* progress = (completed / total_issues * 100) if total_issues > 0 else 0
Progress(completed, total_issues) ==
    IF total_issues > 0 THEN FractionTimes(Fraction(completed, total_issues), 100)
    ELSE Fraction(0, 1)

\* (predicted_completion - datetime.now()).days, predicted_completion being
\* an earlier datetime.now() plus weeks_remaining weeks: the whole days of
\* 7 * weeks_remaining days less the time the clock has advanced in between.
\* ticked: the clock has advanced (by microseconds: less than any fraction
\* of a day a forecast ends on); whether it has is up to the machine.
DaysFromNow(weeks_remaining, ticked) ==
    LET days == FractionTimes(weeks_remaining, 7)
    IN  IF ticked /\ days.den = 1 THEN days.num - 1 ELSE Floor(days)

\* lines 125-137.  due_on is <<>> when the key is absent, None or "";
\* otherwise it is "garbled" (fromisoformat raises ValueError, or the value
\* has no replace method: AttributeError, both caught and passed), or a
\* UTC timestamp as GitHub writes it, .days whole days from the clock.
ParseDueDate(ms) ==
    LET due_on == Get(ms, "due_on", <<>>)
    IN  IF due_on = <<>> \/ due_on[1].form = "garbled"
        THEN [due_date |-> <<>>, days_until_due |-> <<>>]
        ELSE [due_date |-> due_on, days_until_due |-> << due_on[1].days >>]

AtRiskFactor == [num |-> 3, den |-> 2]
BehindFactor == [num |-> 6, den |-> 5]
OnTrackProgress == 80

\* predicted_days > days_until_due * factor
Exceeds(predicted_days, days_until_due, factor) ==
    predicted_days * factor.den > days_until_due * factor.num

\* a slip that looks at the due date before the state
HealthOverdueFirst(state, days_until_due, predicted_days, progress) ==
    IF days_until_due < 0 THEN "overdue"
    ELSE IF state = "closed" THEN "completed"
    ELSE IF Exceeds(predicted_days, days_until_due, AtRiskFactor) THEN "at_risk"
    ELSE IF Exceeds(predicted_days, days_until_due, BehindFactor) THEN "behind"
    ELSE IF FractionLess(Fraction(OnTrackProgress, 1), progress) THEN "on_track"
    ELSE "good"

\* lines 142-154: the branch taken when due_date is set
HealthWithDueDate(state, days_until_due, predicted_days, progress) ==
    IF state = "closed" THEN "completed"
    ELSE IF days_until_due < 0 THEN "overdue"
    ELSE IF Exceeds(predicted_days, days_until_due, AtRiskFactor) THEN "at_risk"
    ELSE IF Exceeds(predicted_days, days_until_due, BehindFactor) THEN "behind"
    ELSE IF FractionLess(Fraction(OnTrackProgress, 1), progress) THEN "on_track"
    ELSE "good"

\* a slip that never asks whether anything remains
HealthNoDeadlineOnly(state, remaining) ==
    IF state = "closed" THEN "completed" ELSE "no_deadline"

\* lines 156-161: the branch taken when due_date is None
HealthWithoutDueDate(state, remaining) ==
    IF state = "closed" THEN "completed"
    ELSE IF remaining = 0 THEN "ready_to_close"
    ELSE "no_deadline"

\* lines 139-161; "unknown", the value health starts with, is overwritten on
\* both branches
MilestoneHealth(ms, remaining, progress, due, predicted_days) ==
    IF due.due_date # <<>>
    THEN HealthWithDueDate(ms.state, due.days_until_due[1], predicted_days, progress)
    ELSE HealthWithoutDueDate(ms.state, remaining)

\* the dict of lines 163-177, next to the locals it was computed from
MilestoneReport(ms, v, progress, issues_per_week, weeks_remaining, due, ticked, ticked_again) ==
    [locals |-> [issues_per_week |-> issues_per_week,
                 weeks_remaining |-> weeks_remaining,
                 predicted_days  |-> DaysFromNow(weeks_remaining, ticked)],
     value  |-> [title               |-> ms.title,
                 state               |-> ms.state,
                 description         |-> Get(ms, "description", <<>>),
                 total_issues        |-> ms.open_issues + ms.closed_issues,
                 completed           |-> ms.closed_issues,
                 remaining           |-> ms.open_issues,
                 progress_percentage |-> progress,
                 due_date            |-> due.due_date,
                 days_until_due      |-> due.days_until_due,
                 predicted_days_remaining |-> DaysFromNow(weeks_remaining, ticked_again),
                 velocity            |-> v,
                 health              |->
                     MilestoneHealth(ms, ms.open_issues, progress, due,
                                     DaysFromNow(weeks_remaining, ticked))]]

\* analyze_milestone(milestone, velocity); ticked and ticked_again say whether
\* the clock has advanced by lines 142 and 174
analyze_milestone(ms, v, ticked, ticked_again) ==
    MilestoneReport(ms, v,
                    Progress(ms.closed_issues, ms.open_issues + ms.closed_issues),
                    ClampedVelocity(v),
                    WeeksRemaining(ms.open_issues, ClampedVelocity(v)),
                    ParseDueDate(ms), ticked, ticked_again)

-----------------------------------------------------------------------------
(* The milestones and velocities analyze_milestone is run on *)

MaxOpenIssues == 3
MaxClosedIssues == 5

\* distances of the due date from the clock, in whole days
DueOffsets == {-2, -1, 0, 1, 4, 5, 6, 10, 30}

DueDates ==
    { <<>>, << [form |-> "garbled"] >> }
        \cup { << [form |-> "utc", days |-> d] >> : d \in DueOffsets }

MilestoneTitle == <<"v", "1">>

\* milestones as GitHub returns them, and one without the due_on key
Milestones ==
    { [title |-> MilestoneTitle, state |-> st, open_issues |-> o,
       closed_issues |-> c, due_on |-> due] :
        st \in {"open", "closed"}, o \in 0..MaxOpenIssues,
        c \in 0..MaxClosedIssues, due \in DueDates }
    \cup
    { [title |-> MilestoneTitle, state |-> st, open_issues |-> o,
       closed_issues |-> c] :
        st \in {"open", "closed"}, o \in 0..MaxOpenIssues,
        c \in 0..MaxClosedIssues }

\* issues per week: negative, zero, below, at and above the minimum
IssuesPerWeek ==
    { [num |-> -1, den |-> 1], [num |-> 0, den |-> 1], [num |-> 1, den |-> 4],
      [num |-> 1, den |-> 2], [num |-> 1, den |-> 1], [num |-> 3, den |-> 1],
      [num |-> 7, den |-> 1] }

Velocities == { [issues_per_week |-> ipw] : ipw \in IssuesPerWeek }

IdleMilestone == [title |-> <<>>, state |-> "open", open_issues |-> 0,
                  closed_issues |-> 0]

MilestoneInit ==
    /\ milestone \in Milestones
    /\ velocity \in Velocities
    /\ milestone_analysis = <<>>

MilestoneIdle ==
    /\ milestone = IdleMilestone
    /\ velocity = [issues_per_week |-> [num |-> 1, den |-> 1]]
    /\ milestone_analysis = <<>>

AnalyzeMilestone ==
    /\ milestone_analysis = <<>>
    /\ \E ticked, ticked_again \in BOOLEAN :
          /\ ticked => ticked_again
          /\ milestone_analysis' =
                << analyze_milestone(milestone, velocity, ticked, ticked_again) >>
    /\ UNCHANGED <<milestone, velocity>>

-----------------------------------------------------------------------------
(* PeriodComparator (src/workflows/trend_analysis/compare_periods.py).       *)
(* Dicts read by key only are functions; the dicts whose order of keys the   *)
(* code goes by (by_label, repository_changes, label_changes) are sequences  *)
(* of items.                                                                 *)

Abs(n) == IF n < 0 THEN -n ELSE n

\* a / b as an exact fraction in lowest terms, b > 0, a of either sign
Ratio(a, b) ==
    IF a < 0 THEN [num |-> -(Fraction(-a, b).num), den |-> Fraction(-a, b).den]
    ELSE Fraction(a, b)

\* f * k
RatioTimes(f, k) == Ratio(f.num * k, f.den)

\* a slip that rounds to one decimal
Round1(f) ==
    LET whole == (f.num * 10) \div f.den
        rest  == (f.num * 10) - whole * f.den
    IN  Ratio(IF 2 * rest >= f.den THEN whole + 1 ELSE whole, 10)

\* round(f, 2): the nearest hundredth, a tie going to the even one
Round2(f) ==
    LET whole == (f.num * 100) \div f.den
        rest  == (f.num * 100) - whole * f.den
    IN  Ratio(IF 2 * rest > f.den THEN whole + 1
              ELSE IF 2 * rest < f.den THEN whole
              ELSE IF whole % 2 = 0 THEN whole ELSE whole + 1,
              100)

\* the 0.20 of line 22
DefaultThreshold == [num |-> 1, den |-> 5]

\* PeriodComparator.__init__; workflow_config None or {} is EmptyDict
PeriodComparator(workflow_config) ==
    [threshold |->
        Get(Get(workflow_config, "trend_analysis", EmptyDict),
            "significant_change_threshold", DefaultThreshold)]

\* (change / baseline * 100) if baseline > 0 else otherwise
PercentChange(change, baseline_count, otherwise) ==
    IF baseline_count > 0 THEN RatioTimes(Ratio(change, baseline_count), 100)
    ELSE otherwise

\* a slip that asks for more than the threshold
IsSignificantStrict(self, pct_change) ==
    FractionLess(self.threshold,
                 [num |-> Abs(pct_change.num), den |-> pct_change.den * 100])

\* abs(pct_change / 100) >= self.threshold
IsSignificant(self, pct_change) ==
    ~FractionLess([num |-> Abs(pct_change.num), den |-> pct_change.den * 100],
                  self.threshold)

\* the dict of lines 74-80
OverallChange(self, baseline_total, current_total, pct_change) ==
    [baseline_total  |-> baseline_total,
     current_total   |-> current_total,
     absolute_change |-> current_total - baseline_total,
     percent_change  |-> Round2(pct_change),
     is_significant  |-> IsSignificant(self, pct_change)]

_compare_overall(self, baseline, current) ==
    OverallChange(self, Get(baseline, "total_issues", 0), Get(current, "total_issues", 0),
                  PercentChange(Get(current, "total_issues", 0) - Get(baseline, "total_issues", 0),
                                Get(baseline, "total_issues", 0), Ratio(0, 1)))

\* the dict of lines 100-105
StateChange(baseline_count, current_count) ==
    [baseline       |-> baseline_count,
     current        |-> current_count,
     change         |-> current_count - baseline_count,
     percent_change |->
        Round2(PercentChange(current_count - baseline_count, baseline_count,
                             Ratio(0, 1)))]

_compare_states(self, baseline, current) ==
    LET baseline_states == Get(baseline, "by_state", EmptyDict)
        current_states  == Get(current, "by_state", EmptyDict)
    IN  [state \in DOMAIN baseline_states \cup DOMAIN current_states |->
            StateChange(Get(baseline_states, state, 0), Get(current_states, state, 0))]

\* the item of lines 127-133
RepositoryChange(self, repo, baseline_count, current_count, pct_change) ==
    [key            |-> repo,
     baseline       |-> baseline_count,
     current        |-> current_count,
     change         |-> current_count - baseline_count,
     percent_change |-> Round2(pct_change),
     is_significant |-> IsSignificant(self, pct_change)]

\* the orders a set may be iterated in
Orderings(S) ==
    {order \in [1..Cardinality(S) -> S] :
        \A i, j \in 1..Cardinality(S) : order[i] = order[j] => i = j}

\* all_repos = set(baseline_repos.keys()) | set(current_repos.keys())
all_repos(baseline, current) ==
    DOMAIN Get(baseline, "by_repository", EmptyDict)
        \cup DOMAIN Get(current, "by_repository", EmptyDict)

\* _compare_repositories, order being the order in which the for loop of
\* line 119 meets the elements of the set all_repos
_compare_repositories(self, baseline, current, order) ==
    LET baseline_repos == Get(baseline, "by_repository", EmptyDict)
        current_repos  == Get(current, "by_repository", EmptyDict)
    IN  [i \in 1..Len(order) |->
            RepositoryChange(self, order[i],
                Get(baseline_repos, order[i], 0), Get(current_repos, order[i], 0),
                PercentChange(Get(current_repos, order[i], 0) - Get(baseline_repos, order[i], 0),
                              Get(baseline_repos, order[i], 0), Ratio(0, 1)))]

\* dict.get(key, 0) on a dict kept as a sequence of items
ItemCount(items, key) ==
    IF \E i \in 1..Len(items) : items[i].key = key
    THEN items[CHOOSE i \in 1..Len(items) : items[i].key = key].n
    ELSE 0

\* the 3 of line 154
NoiseFloor == 3

\* the item of lines 155-160
LabelChange(label, baseline_count, current_count) ==
    [key            |-> label,
     baseline       |-> baseline_count,
     current        |-> current_count,
     change         |-> current_count - baseline_count,
     percent_change |->
        Round2(PercentChange(current_count - baseline_count, baseline_count,
                             Ratio(100, 1)))]

\* the loop of lines 146-160 over the labels of the current snapshot
RECURSIVE LabelChanges(_, _)
LabelChanges(baseline_labels, current_labels) ==
    IF current_labels = <<>> THEN <<>>
    ELSE (IF ItemCount(baseline_labels, Head(current_labels).key) > 0
             \/ Head(current_labels).n >= NoiseFloor
          THEN << LabelChange(Head(current_labels).key,
                              ItemCount(baseline_labels, Head(current_labels).key),
                              Head(current_labels).n) >>
          ELSE <<>>)
         \o LabelChanges(baseline_labels, Tail(current_labels))

\* sorted(changes.items(), key=lambda x: abs(x[1]["change"]), reverse=True):
\* largest first, equal ones in the order they came
RECURSIVE SortedByAbsChange(_)
SortedByAbsChange(changes) ==
    IF changes = <<>> THEN <<>>
    ELSE LET i == CHOOSE x \in 1..Len(changes) :
                    /\ \A y \in 1..Len(changes) :
                          Abs(changes[y].change) <= Abs(changes[x].change)
                    /\ \A y \in 1..(x - 1) :
                          Abs(changes[y].change) < Abs(changes[x].change)
         IN  << changes[i] >> \o SortedByAbsChange(Without(changes, i))

_compare_labels(self, baseline, current) ==
    SortedByAbsChange(LabelChanges(Get(baseline, "by_label", <<>>),
                                   Get(current, "by_label", <<>>)))

\* _compare_assignees; the result is read by key only, so the order that
\* sorted() gives its keys is not kept
_compare_assignees(self, baseline, current) ==
    LET baseline_assignees == Get(baseline, "by_assignee", EmptyDict)
        current_assignees  == Get(current, "by_assignee", EmptyDict)
    IN  [assignee \in DOMAIN baseline_assignees \cup DOMAIN current_assignees |->
            [baseline |-> Get(baseline_assignees, assignee, 0),
             current  |-> Get(current_assignees, assignee, 0),
             change   |-> Get(current_assignees, assignee, 0)
                            - Get(baseline_assignees, assignee, 0)]]

\* an insight, in place of its sentence: what it is about and the numbers in it
Insight(kind, subject, change) ==
    [kind      |-> kind,
     subject   |-> subject,
     direction |-> IF change > 0 THEN "increased" ELSE "decreased",
     amount    |-> Abs(change)]

\* the 5 of line 211, the 3 of line 225, the 5 of line 235, the 5 of line 248
OpenChangeFloor == 5
TopRepositories == 3
TopLabels == 5
UnassignedFloor == 5

\* [x for x in items if test(x)]
RECURSIVE Significant(_)
Significant(items) ==
    IF items = <<>> THEN <<>>
    ELSE (IF Head(items).is_significant THEN << Head(items) >> ELSE <<>>)
         \o Significant(Tail(items))

RECURSIVE Growing(_)
Growing(items) ==
    IF items = <<>> THEN <<>>
    ELSE (IF Head(items).change > 0 THEN << Head(items) >> ELSE <<>>)
         \o Growing(Tail(items))

\* lines 218-229
RepositoryHotSpots(repo_changes) ==
    LET top == Prefix(Significant(repo_changes), TopRepositories)
    IN  [i \in 1..Len(top) |-> Insight("repository", top[i].key, top[i].change)]

\* lines 232-242
LabelTrends(label_changes) ==
    LET top_growing_labels == Growing(Prefix(label_changes, TopLabels))
    IN  IF top_growing_labels # <<>>
        THEN << Insight("label", top_growing_labels[1].key, top_growing_labels[1].change) >>
        ELSE <<>>

_generate_insights(res) ==
    (IF res.overall_changes.is_significant
     THEN << Insight("total", "issues", res.overall_changes.absolute_change) >>
     ELSE <<>>)
    \o (IF "OPEN" \in DOMAIN res.state_changes
           /\ Abs(res.state_changes["OPEN"].change) >= OpenChangeFloor
        THEN << Insight("open", "issues", res.state_changes["OPEN"].change) >>
        ELSE <<>>)
    \o RepositoryHotSpots(res.repository_changes)
    \o LabelTrends(res.label_changes)
    \o (IF "Unassigned" \in DOMAIN res.assignee_changes
           /\ res.assignee_changes["Unassigned"].change > UnassignedFloor
        THEN << Insight("unassigned", "issues", res.assignee_changes["Unassigned"].change) >>
        ELSE <<>>)

\* the results with their insights filled in (line 59)
WithInsights(res) == [res EXCEPT !.insights = _generate_insights(res)]

\* the results of lines 40-56 (analysis_date, the clock, is left out)
Comparisons(self, baseline, current, baseline_summary, current_summary, order) ==
    [metadata |->
        [baseline_date |-> Get(Get(baseline, "metadata", EmptyDict), "collected_at", <<>>),
         current_date  |-> Get(Get(current, "metadata", EmptyDict), "collected_at", <<>>)],
     overall_changes    |-> _compare_overall(self, baseline_summary, current_summary),
     state_changes      |-> _compare_states(self, baseline_summary, current_summary),
     repository_changes |-> _compare_repositories(self, baseline_summary, current_summary, order),
     label_changes      |-> _compare_labels(self, baseline_summary, current_summary),
     assignee_changes   |-> _compare_assignees(self, baseline_summary, current_summary),
     insights           |-> <<>>]

\* PeriodComparator.compare(baseline, current)
compare(self, baseline, current, order) ==
    WithInsights(Comparisons(self, baseline, current,
                             Get(baseline, "summary", EmptyDict),
                             Get(current, "summary", EmptyDict), order))

-----------------------------------------------------------------------------
(* The snapshots compare is run on *)

MaxIssues == 6

RepoBaselines ==
    { EmptyDict,
      ("api" :> 5),
      ("api" :> 5) @@ ("web" :> 2) @@ ("cli" :> 4) @@ ("docs" :> 1) }

RepoCurrents ==
    { ("api" :> 6),
      ("api" :> 5) @@ ("web" :> 5),
      ("web" :> 3),
      ("api" :> 1) @@ ("web" :> 4) @@ ("cli" :> 6) @@ ("docs" :> 4) }

\* by_label of the earlier and of the later snapshot, in the order of the file
BaselineLabels(bugs) ==
    (IF bugs > 0 THEN << [key |-> "bug", n |-> bugs] >> ELSE <<>>)
        \o << [key |-> "chore", n |-> 1] >>

CurrentLabels(bugs) ==
    (IF bugs > 0 THEN << [key |-> "bug", n |-> bugs] >> ELSE <<>>)
        \o << [key |-> "feature", n |-> 3], [key |-> "chore", n |-> 2],
              [key |-> "idea", n |-> 2] >>

\* a snapshot with total open, unassigned issues
Snapshot(collected_at, total, repos, labels) ==
    [metadata |-> [collected_at |-> collected_at],
     summary  |->
        [total_issues  |-> total,
         by_state      |-> IF total > 0 THEN ("OPEN" :> total) @@ ("CLOSED" :> 2)
                           ELSE ("CLOSED" :> 2),
         by_repository |-> repos,
         by_label      |-> labels,
         by_assignee   |-> IF total > 0 THEN ("Unassigned" :> total) @@ ("octocat" :> 1)
                           ELSE ("octocat" :> 1)]]

BaselineSnapshots ==
    { Snapshot(<<"d", "1">>, total, repos, BaselineLabels(total)) :
        total \in 0..MaxIssues, repos \in RepoBaselines }
    \cup { [metadata |-> [collected_at |-> <<"d", "1">>]] }

CurrentSnapshots ==
    { Snapshot(<<"d", "2">>, total, repos, CurrentLabels(total)) :
        total \in 0..MaxIssues, repos \in RepoCurrents }

WorkflowConfigs ==
    { EmptyDict,
      ("trend_analysis" :> EmptyDict),
      ("trend_analysis" :> ("significant_change_threshold" :> [num |-> 1, den |-> 2])),
      ("trend_analysis" :>
          ("significant_change_threshold" :> [num |-> 33333, den |-> 100000])),
      ("trend_analysis" :> ("significant_change_threshold" :> [num |-> 0, den |-> 1])) }

TrendInit ==
    /\ comparator \in { PeriodComparator(workflow_config) :
                            workflow_config \in WorkflowConfigs }
    /\ baseline_snapshot \in BaselineSnapshots
    /\ current_snapshot \in CurrentSnapshots
    /\ comparison = <<>>

TrendIdle ==
    /\ comparator = PeriodComparator(EmptyDict)
    /\ baseline_snapshot = EmptyDict
    /\ current_snapshot = EmptyDict
    /\ comparison = <<>>

\* comparator.compare(baseline_snapshot, current_snapshot)
Compare ==
    /\ comparison = <<>>
    /\ \E order \in Orderings(all_repos(Get(baseline_snapshot, "summary", EmptyDict),
                                        Get(current_snapshot, "summary", EmptyDict))) :
          comparison' = << compare(comparator, baseline_snapshot, current_snapshot, order) >>
    /\ UNCHANGED <<comparator, baseline_snapshot, current_snapshot>>

-----------------------------------------------------------------------------
(* PeriodComparisonGenerator._calculate_changes                              *)
(* (src/workflows/code_analysis/period_comparison.py).  A list made from a   *)
(* set comes in no particular order and is kept as the set.                  *)

\* set(list)
SetOf(list) == {list[i] : i \in 1..Len(list)}

\* lines 146-156 for one key
NumericChange(curr_val, prev_val) ==
    [current        |-> curr_val,
     previous       |-> prev_val,
     difference     |-> curr_val - prev_val,
     percent_change |->
        IF curr_val - prev_val # 0
        THEN PercentChange(curr_val - prev_val, prev_val, Ratio(0, 1))
        ELSE Ratio(0, 1)]

\* lines 159-166
ContributorChanges(curr_contributors, prev_contributors) ==
    [current  |-> Cardinality(curr_contributors),
     previous |-> Cardinality(prev_contributors),
     new      |-> curr_contributors \ prev_contributors,
     lost     |-> prev_contributors \ curr_contributors]

\* a slip that takes every issue of either period for a continuing one
IssueChangesUnion(curr_issues, prev_issues) ==
    [current    |-> Cardinality(curr_issues),
     previous   |-> Cardinality(prev_issues),
     new        |-> curr_issues \ prev_issues,
     continuing |-> curr_issues \cup prev_issues]

\* lines 169-176
IssueChanges(curr_issues, prev_issues) ==
    [current    |-> Cardinality(curr_issues),
     previous   |-> Cardinality(prev_issues),
     new        |-> curr_issues \ prev_issues,
     continuing |-> curr_issues \cap prev_issues]

\* lines 179-192
CommitTypeChanges(curr_types, prev_types) ==
    [commit_type \in DOMAIN curr_types \cup DOMAIN prev_types |->
        [current    |-> Get(curr_types, commit_type, 0),
         previous   |-> Get(prev_types, commit_type, 0),
         difference |-> Get(curr_types, commit_type, 0) - Get(prev_types, commit_type, 0)]]

\* total_commits of repo in a period, 0 when the period has nothing of it
RepositoryCommits(repositories, repo) ==
    IF repo \in DOMAIN repositories THEN repositories[repo].total_commits ELSE 0

\* lines 195-218
RepositoryActivityChanges(curr_repos, prev_repos) ==
    [repo \in DOMAIN curr_repos \cup DOMAIN prev_repos |->
        [current    |-> RepositoryCommits(curr_repos, repo),
         previous   |-> RepositoryCommits(prev_repos, repo),
         difference |-> RepositoryCommits(curr_repos, repo)
                            - RepositoryCommits(prev_repos, repo)]]

_calculate_changes(curr, prev) ==
    [commits              |-> NumericChange(curr.commits, prev.commits),
     conventional_commits |-> NumericChange(curr.conventional_commits,
                                            prev.conventional_commits),
     breaking_changes     |-> NumericChange(curr.breaking_changes, prev.breaking_changes),
     contributors         |-> ContributorChanges(SetOf(curr.contributors),
                                                 SetOf(prev.contributors)),
     issues               |-> IssueChanges(SetOf(curr.issues_referenced),
                                           SetOf(prev.issues_referenced)),
     commit_types         |-> CommitTypeChanges(curr.commit_types, prev.commit_types),
     repositories         |-> RepositoryActivityChanges(curr.repositories,
                                                        prev.repositories)]

-----------------------------------------------------------------------------
(* The periods _calculate_changes is run on *)

MaxPeriodCommits == 4

\* who committed and which issues were referenced in a period
PeriodActivity ==
    { [contributors |-> <<>>, issues_referenced |-> <<>>],
      [contributors |-> <<"ann">>, issues_referenced |-> <<1>>],
      [contributors |-> <<"ann", "bob">>, issues_referenced |-> <<2, 1>>],
      [contributors |-> <<"bob", "cat">>, issues_referenced |-> <<2, 3>>] }

\* the period_data of a period with one active repository
PeriodData(total, conventional, activity) ==
    [commits              |-> total,
     conventional_commits |-> conventional,
     contributors         |-> activity.contributors,
     issues_referenced    |-> activity.issues_referenced,
     breaking_changes     |-> IF conventional > 1 THEN conventional - 1 ELSE 0,
     commit_types         |-> IF conventional > 0 THEN ("feat" :> conventional) ELSE EmptyDict,
     commit_scopes        |-> EmptyDict,
     repositories         |-> IF total > 0 THEN ("octo/api" :> [total_commits |-> total])
                              ELSE EmptyDict]

Periods ==
    { PeriodData(total, conventional, activity) :
        total \in 0..MaxPeriodCommits, conventional \in 0..MaxPeriodCommits,
        activity \in PeriodActivity }

IdlePeriod == PeriodData(0, 0, [contributors |-> <<>>, issues_referenced |-> <<>>])

ChangesInit ==
    /\ current_period \in {p \in Periods : p.conventional_commits <= p.commits}
    /\ previous_period \in {p \in Periods : p.conventional_commits <= p.commits}
    /\ period_changes = <<>>

ChangesIdle ==
    /\ current_period = IdlePeriod
    /\ previous_period = IdlePeriod
    /\ period_changes = <<>>

\* _calculate_changes(current_period, previous_period)
CalculateChanges ==
    /\ period_changes = <<>>
    /\ period_changes' = << _calculate_changes(current_period, previous_period) >>
    /\ UNCHANGED <<current_period, previous_period>>

-----------------------------------------------------------------------------
(* VelocityTracker._calculate_trends (src/workflows/metrics/velocity_tracker.py) *)
(* on the list generate_velocity_report hands it, the latest cycle first.    *)

\* list(reversed(cycles))
Reversed(cycles) == [i \in 1..Len(cycles) |-> cycles[Len(cycles) + 1 - i]]

\* a slip that takes the list to be in chronological order already
AsGiven(cycles) == cycles

\* line 206: the cycles in chronological order
Chronological(cycles) == Reversed(cycles)

\* "up" if recent > previous else "down" if recent < previous else "stable",
\* for two fractions
Direction(recent, previous) ==
    IF FractionLess(previous, recent) THEN "up"
    ELSE IF FractionLess(recent, previous) THEN "down"
    ELSE "stable"

\* recent - previous for two fractions
RatioMinus(a, b) == Ratio(a.num * b.den - b.num * a.den, a.den * b.den)

\* cycles[-3:] if len(cycles) >= 3 else cycles
RecentCycles(cycles) ==
    IF Len(cycles) >= 3 THEN SubSeq(cycles, Len(cycles) - 2, Len(cycles)) ELSE cycles

\* sum(c[key] for c in cycles)
RECURSIVE SumOfCycles(_, _)
SumOfCycles(cycles, key) ==
    IF cycles = <<>> THEN 0 ELSE Head(cycles)[key] + SumOfCycles(Tail(cycles), key)

\* lines 255-259
VelocityTrend(commits_direction, quality_direction) ==
    IF commits_direction = "up" /\ quality_direction = "up" THEN "improving"
    ELSE IF commits_direction = "down" THEN "declining"
    ELSE "stable"

\* lines 212-262, cycles in chronological order
TrendsOf(recent, previous, recent_cycles) ==
    [commits |->
        [direction |-> Direction(Fraction(recent.commits, 1), Fraction(previous.commits, 1)),
         change    |-> recent.commits - previous.commits],
     issues |->
        [direction |-> Direction(Fraction(recent.issues_completed, 1),
                                 Fraction(previous.issues_completed, 1)),
         change    |-> recent.issues_completed - previous.issues_completed],
     quality |->
        [direction |-> Direction(recent.conventional_percentage,
                                 previous.conventional_percentage),
         change    |-> RatioMinus(recent.conventional_percentage,
                                  previous.conventional_percentage)],
     velocity |->
        [avg_commits |-> Fraction(SumOfCycles(recent_cycles, "commits"), Len(recent_cycles)),
         avg_issues  |-> Fraction(SumOfCycles(recent_cycles, "issues_completed"),
                                  Len(recent_cycles)),
         trend       |->
            VelocityTrend(
                Direction(Fraction(recent.commits, 1), Fraction(previous.commits, 1)),
                Direction(recent.conventional_percentage,
                          previous.conventional_percentage))]]

ChronologicalTrends(cycles) ==
    TrendsOf(cycles[Len(cycles)], cycles[Len(cycles) - 1], RecentCycles(cycles))

_calculate_trends(cycles) ==
    IF Len(cycles) < 2 THEN EmptyDict
    ELSE ChronologicalTrends(Chronological(cycles))

-----------------------------------------------------------------------------
(* The cycles _calculate_trends is run on *)

MaxCycles == 3
MaxCycleCommits == 2

\* what analyze_cycle returns, as far as _calculate_trends reads it
CycleData(total, conventional, issues_completed) ==
    [commits                 |-> total,
     conventional_commits    |-> conventional,
     issues_completed        |-> issues_completed,
     conventional_percentage |-> IF total > 0 THEN Fraction(conventional * 100, total)
                                 ELSE Fraction(0, 1)]

Cycles ==
    { CycleData(total, conventional, issues_completed) :
        total \in 0..MaxCycleCommits, conventional \in 0..MaxCycleCommits,
        issues_completed \in 0..1 }

CycleLists ==
    UNION { [1..n -> {c \in Cycles : c.conventional_commits <= c.commits}] :
              n \in 0..MaxCycles }

VelocityInit ==
    /\ cycle_data_list \in CycleLists
    /\ trends = <<>>

VelocityIdle ==
    /\ cycle_data_list = <<>>
    /\ trends = <<>>

\* trends = self._calculate_trends(cycle_data_list)
CalculateTrends ==
    /\ trends = <<>>
    /\ trends' = << _calculate_trends(cycle_data_list) >>
    /\ UNCHANGED cycle_data_list

-----------------------------------------------------------------------------
(* The loops of PeriodComparisonGenerator.analyze_period                     *)
(* (src/workflows/code_analysis/period_comparison.py) and of                 *)
(* VelocityTracker.analyze_cycle (src/workflows/metrics/velocity_tracker.py) *)
(* that merge the analyses of the repositories, one repository a step.  The  *)
(* histograms are dicts kept as item sequences in insertion order; the two   *)
(* sets and the dict of repositories are kept without an order.              *)

\* dict.keys() of a dict kept as a sequence of items
Keys(items) == {items[i].key : i \in 1..Len(items)}

\* a slip that stores the count of the repository over the one merged so far
SetCount(counter, key, count) ==
    IF \E i \in 1..Len(counter) : counter[i].key = key
    THEN [i \in 1..Len(counter) |->
            IF counter[i].key = key THEN [key |-> key, n |-> count] ELSE counter[i]]
    ELSE Append(counter, [key |-> key, n |-> count])

\* counter[key] = counter.get(key, 0) + count
AddCount(counter, key, count) ==
    IF \E i \in 1..Len(counter) : counter[i].key = key
    THEN [i \in 1..Len(counter) |->
            IF counter[i].key = key
            THEN [key |-> key, n |-> counter[i].n + count]
            ELSE counter[i]]
    ELSE Append(counter, [key |-> key, n |-> count])

\* for key, count in items: counter[key] = counter.get(key, 0) + count
RECURSIVE MergeCounts(_, _)
MergeCounts(counter, items) ==
    IF items = <<>> THEN counter
    ELSE MergeCounts(AddCount(counter, Head(items).key, Head(items).n), Tail(items))

\* what fetch_commits and analyze_commits make of a repository: nothing when
\* the fetch raises or finds no commit (both end in `continue`)
RepoAnalysis(fetch) ==
    IF fetch.outcome = "raised" \/ fetch.value = <<>> THEN <<>>
    ELSE << analyze_commits(<<>>, fetch.value).value >>

\* period_data before the loop (period_comparison.py lines 30-39)
EmptyPeriodData ==
    [commits |-> 0, conventional_commits |-> 0, contributors |-> {},
     issues_referenced |-> {}, breaking_changes |-> 0, commit_types |-> <<>>,
     commit_scopes |-> <<>>, repositories |-> EmptyDict]

\* the body of the loop of analyze_period for a repository with commits
\* (lines 55-75)
MergeIntoPeriod(acc, repo_key, analysis) ==
    [commits              |-> acc.commits + analysis.total_commits,
     conventional_commits |-> acc.conventional_commits + analysis.conventional_commits,
     contributors         |-> acc.contributors \cup Keys(analysis.authors),
     issues_referenced    |-> acc.issues_referenced \cup Keys(analysis.issue_references),
     breaking_changes     |-> acc.breaking_changes + Len(analysis.breaking_changes),
     commit_types         |-> MergeCounts(acc.commit_types, analysis.commit_types),
     commit_scopes        |-> MergeCounts(acc.commit_scopes, analysis.commit_scopes),
     repositories         |-> (repo_key :> analysis) @@ acc.repositories]

\* cycle_data before the loop (velocity_tracker.py lines 43-54), without the
\* name and the dates of the cycle
EmptyCycleData ==
    [commits |-> 0, conventional_commits |-> 0, issues_referenced |-> {},
     breaking_changes |-> 0, commit_types |-> <<>>, contributors |-> <<>>,
     repositories |-> EmptyDict, daily_commits |-> <<>>]

\* the body of the loop of analyze_cycle for a repository with commits
\* (lines 72-103)
MergeIntoCycle(acc, repo_key, analysis) ==
    [commits              |-> acc.commits + analysis.total_commits,
     conventional_commits |-> acc.conventional_commits + analysis.conventional_commits,
     issues_referenced    |-> acc.issues_referenced \cup Keys(analysis.issue_references),
     breaking_changes     |-> acc.breaking_changes + Len(analysis.breaking_changes),
     commit_types         |-> MergeCounts(acc.commit_types, analysis.commit_types),
     contributors         |-> MergeCounts(acc.contributors, analysis.authors),
     repositories         |->
        (repo_key :> [commits |-> analysis.total_commits,
                      conventional_commits |-> analysis.conventional_commits])
            @@ acc.repositories,
     daily_commits        |-> MergeCounts(acc.daily_commits, analysis.daily_commits)]

\* what analyze_cycle adds after the loop (lines 109-118)
CycleMetrics(acc) ==
    [issues_completed        |-> Cardinality(acc.issues_referenced),
     conventional_percentage |->
        ConventionalPercentage(acc.conventional_commits, acc.commits)]

-----------------------------------------------------------------------------
(* The repositories the two loops are run on *)

Repos == {"octo/api", "octo/web", "octo/cli"}

\* what fetch_commits may give for a repository
Fetches ==
    { [outcome |-> "raised"],
      [outcome |-> "returned", value |-> <<>>],
      [outcome |-> "returned", value |-> <<CommitBreaking, CommitFix>>],
      [outcome |-> "returned", value |-> <<CommitFix, CommitPlain>>],
      [outcome |-> "returned", value |-> <<CommitNoMessage, CommitBreaking>>],
      [outcome |-> "returned", value |-> BusyList(TopScopes + 1, 0)] }

MergeInit ==
    /\ repo_analyses \in [Repos -> {RepoAnalysis(fetch) : fetch \in Fetches}]
    /\ period_pending = Repos
    /\ period_data = EmptyPeriodData
    /\ period_returned = <<>>
    /\ cycle_pending = Repos
    /\ cycle_data = EmptyCycleData
    /\ cycle_returned = <<>>

MergeIdle ==
    /\ repo_analyses = EmptyDict
    /\ period_pending = {}
    /\ period_data = EmptyPeriodData
    /\ period_returned = <<>>
    /\ cycle_pending = {}
    /\ cycle_data = EmptyCycleData
    /\ cycle_returned = <<>>

\* one pass of the loop of analyze_period, for any repository still to come
PeriodStep ==
    /\ \E repo_key \in period_pending :
          /\ period_pending' = period_pending \ {repo_key}
          /\ period_data' =
                IF repo_analyses[repo_key] = <<>> THEN period_data
                ELSE MergeIntoPeriod(period_data, repo_key, repo_analyses[repo_key][1])
    /\ UNCHANGED <<repo_analyses, period_returned, cycle_pending, cycle_data,
                   cycle_returned>>

\* analyze_period returns (lines 80-84)
PeriodReturn ==
    /\ period_pending = {}
    /\ period_returned = <<>>
    /\ period_returned' = << period_data >>
    /\ UNCHANGED <<repo_analyses, period_pending, period_data, cycle_pending,
                   cycle_data, cycle_returned>>

\* one pass of the loop of analyze_cycle, for any repository still to come
CycleStep ==
    /\ \E repo_key \in cycle_pending :
          /\ cycle_pending' = cycle_pending \ {repo_key}
          /\ cycle_data' =
                IF repo_analyses[repo_key] = <<>> THEN cycle_data
                ELSE MergeIntoCycle(cycle_data, repo_key, repo_analyses[repo_key][1])
    /\ UNCHANGED <<repo_analyses, period_pending, period_data, period_returned,
                   cycle_returned>>

\* analyze_cycle returns (lines 105-124)
CycleReturn ==
    /\ cycle_pending = {}
    /\ cycle_returned = <<>>
    /\ cycle_returned' = << CycleMetrics(cycle_data) @@ cycle_data >>
    /\ UNCHANGED <<repo_analyses, period_pending, period_data, period_returned,
                   cycle_pending, cycle_data>>

-----------------------------------------------------------------------------
(* DataCollector (src/src/github_pm/data_collector.py).  The directory       *)
(* base_data_dir is a dict from file names to what is stored under them: a   *)
(* regular file with its JSON data, or a symbolic link with its target.  A   *)
(* Path is the file name in base_data_dir.                                   *)

Hyphen == <<"-">>
JsonSuffix == <<".", "j", "s", "o", "n">>
LatestPrefix == <<"l", "a", "t", "e", "s", "t", "-">>

\* s.endswith(p)
EndsWith(s, p) == Len(p) <= Len(s) /\ SubSeq(s, Len(s) - Len(p) + 1, Len(s)) = p

\* f"{date}-{label.lower()}.json" (line 48)
SnapshotFilename(date, label) == date \o Hyphen \o Lower(label) \o JsonSuffix

\* f"latest-{label.lower()}.json" (line 74)
LatestFilename(label) == LatestPrefix \o Lower(label) \o JsonSuffix

\* the snapshot_data of lines 52-69, as far as it tells one snapshot from
\* another: now is the clock reading that goes into the timestamp
SnapshotData(issue_list, date, now) ==
    [metadata |-> [snapshot_date |-> date, timestamp |-> now,
                   total_issues |-> Len(issue_list)],
     issues   |-> issue_list]

RegularFile(data) == [kind |-> "file", data |-> data]
SymbolicLink(target) == [kind |-> "symlink", target |-> target]

\* date, or today's date when date is None (lines 44-45)
DateOrToday(date, today_date) == IF date = <<>> THEN today_date ELSE date[1]

\* the file create_snapshot writes
SnapshotPath(date, label, now) == SnapshotFilename(date, label)

\* the directory after snapshot_path.write_text (line 71)
WriteText(dir, path, data) == (path :> RegularFile(data)) @@ dir

\* a slip that leaves an existing latest link in place
KeepLink(dir, link, target) ==
    IF link \in DOMAIN dir THEN dir ELSE (link :> SymbolicLink(target)) @@ dir

\* the directory after lines 74-77: the link is removed if there, and made anew
Relink(dir, link, target) == (link :> SymbolicLink(target)) @@ dir

\* the directory create_snapshot leaves, and the path it returns
create_snapshot(dir, issue_list, label, date, now) ==
    [dir  |-> Relink(WriteText(dir, SnapshotPath(date, label, now),
                               SnapshotData(issue_list, date, now)),
                     LatestFilename(label), SnapshotPath(date, label, now)),
     path |-> SnapshotPath(date, label, now)]

\* Path.exists() and Path.is_file(), both of which follow a symbolic link
Exists(dir, path) ==
    /\ path \in DOMAIN dir
    /\ dir[path].kind = "symlink" => dir[path].target \in DOMAIN dir

IsFile(dir, path) == Exists(dir, path)

\* what open(path) reads
ReadFile(dir, path) ==
    IF dir[path].kind = "symlink" THEN dir[dir[path].target].data ELSE dir[path].data

\* Path.glob: "*.json", or f"*-{label.lower()}.json" when a label is given
Glob(dir, label) ==
    {path \in DOMAIN dir :
        EndsWith(path, IF label = <<>> THEN JsonSuffix
                       ELSE Hyphen \o Lower(label[1]) \o JsonSuffix)}

\* sorted(snapshots): by name, character by character
RECURSIVE Sorted(_, _)
Sorted(dir, paths) ==
    IF paths = {} THEN <<>>
    ELSE LET first == CHOOSE p \in paths : \A q \in paths \ {p} : StrLess(p, q)
         IN  <<first>> \o Sorted(dir, paths \ {first})

\* list_snapshots(label), label None being <<>>
list_snapshots(dir, label) ==
    Sorted(dir, {f \in Glob(dir, label) :
                    IsFile(dir, f) /\ ~StartsAt(f, 1, LatestPrefix)})

LatestIdentifiers == {<<"l", "a", "t", "e", "s", "t", "-", "s", "o", "d">>, <<"l", "a", "t", "e", "s", "t", "-", "e", "o", "d">>, <<"l", "a", "t", "e", "s", "t", "-", "s", "n", "a", "p", "s", "h", "o", "t">>}
LabelIdentifiers == {<<"s", "o", "d">>, <<"e", "o", "d">>, <<"s", "n", "a", "p", "s", "h", "o", "t">>}

\* the path load_snapshot looks under (lines 184-199)
ResolveIdentifier(snapshot_identifier) ==
    IF snapshot_identifier.kind = "path" THEN snapshot_identifier.value
    ELSE IF snapshot_identifier.value \in LatestIdentifiers
         THEN snapshot_identifier.value \o JsonSuffix
    ELSE IF snapshot_identifier.value \in LabelIdentifiers
         THEN LatestPrefix \o snapshot_identifier.value \o JsonSuffix
    ELSE IF ~EndsWith(snapshot_identifier.value, JsonSuffix)
         THEN snapshot_identifier.value \o JsonSuffix
    ELSE snapshot_identifier.value

\* load_snapshot(snapshot_identifier)
load_snapshot(dir, snapshot_identifier) ==
    IF ~Exists(dir, ResolveIdentifier(snapshot_identifier))
    THEN [outcome |-> "raised", error |-> "FileNotFoundError"]
    ELSE [outcome |-> "returned",
          value |-> ReadFile(dir, ResolveIdentifier(snapshot_identifier))]

-----------------------------------------------------------------------------
(* The snapshots that are taken *)

MaxSnapshots == 3

SnapshotLabels == {<<"s", "o", "d">>, <<"e", "o", "d">>, <<"s", "n", "a", "p", "s", "h", "o", "t">>}
Dates == << <<"2", "0", "2", "5", "-", "0", "1", "-", "1", "8">>,
           <<"2", "0", "2", "5", "-", "0", "1", "-", "1", "9">> >>

\* the issue lists put into a snapshot
IssueLists == { << [number |-> 1] >> }

\* what load_snapshot is asked for
Identifiers ==
    { [kind |-> "str", value |-> v] :
        v \in LatestIdentifiers \cup LabelIdentifiers
                \cup { <<"2", "0", "2", "5", "-", "0", "1", "-", "1", "8", "-", "s", "o", "d">>,
                       <<"2", "0", "2", "5", "-", "0", "1", "-", "1", "8", "-", "e", "o", "d", ".", "j", "s", "o", "n">> } }
    \cup { [kind |-> "path", value |-> SnapshotFilename(Dates[1], <<"s", "n", "a", "p", "s", "h", "o", "t">>)] }

CollectorInit ==
    /\ base_data_dir = EmptyDict
    /\ today = 1
    /\ snapshot_calls = <<>>
    /\ answer = <<>>

CollectorIdle ==
    /\ base_data_dir = EmptyDict
    /\ today = 1
    /\ snapshot_calls = <<>>
    /\ answer = <<>>

\* midnight passes
NextDay ==
    /\ today < Len(Dates)
    /\ today' = today + 1
    /\ UNCHANGED <<base_data_dir, snapshot_calls, answer>>

\* collector.create_snapshot(issues, organized, config, label, date); the
\* clock reading is the number of the call
CreateSnapshot ==
    /\ Len(snapshot_calls) < MaxSnapshots
    /\ \E issue_list \in IssueLists, label \in SnapshotLabels,
          date \in {<<>>} \cup {<<Dates[i]>> : i \in 1..Len(Dates)} :
          \E made \in { create_snapshot(base_data_dir, issue_list, label,
                                        DateOrToday(date, Dates[today]),
                                        Len(snapshot_calls) + 1) } :
              /\ base_data_dir' = made.dir
              /\ snapshot_calls' =
                    Append(snapshot_calls,
                           [label |-> label,
                            date  |-> DateOrToday(date, Dates[today]),
                            path  |-> made.path,
                            data  |-> SnapshotData(issue_list,
                                                   DateOrToday(date, Dates[today]),
                                                   Len(snapshot_calls) + 1)])
    /\ answer' = <<>>
    /\ UNCHANGED today

\* collector.list_snapshots(label)
ListSnapshots ==
    /\ \E label \in {<<>>} \cup {<<l>> : l \in SnapshotLabels} :
          answer' = << [asked |-> "list_snapshots", label |-> label,
                        value |-> list_snapshots(base_data_dir, label)] >>
    /\ UNCHANGED <<base_data_dir, today, snapshot_calls>>

\* collector.load_snapshot(snapshot_identifier)
LoadSnapshot ==
    /\ \E snapshot_identifier \in Identifiers :
          answer' = << [asked |-> "load_snapshot", identifier |-> snapshot_identifier]
                        @@ load_snapshot(base_data_dir, snapshot_identifier) >>
    /\ UNCHANGED <<base_data_dir, today, snapshot_calls>>

-----------------------------------------------------------------------------
(* IssueOrganizer.organize_by_repository (src/src/github_pm/organizer.py).   *)
(* The dict it builds is the sequence of its items, in insertion order.      *)

\* a slip that keeps only the newest issue of a group
SetGroup(groups, key, iss) ==
    IF \E k \in 1..Len(groups) : groups[k].key = key
    THEN [k \in 1..Len(groups) |->
            IF groups[k].key = key THEN [key |-> key, value |-> <<iss>>]
            ELSE groups[k]]
    ELSE Append(groups, [key |-> key, value |-> <<iss>>])

\* organized[repo].append(issue), organized being a defaultdict(list)
AppendToGroup(groups, key, iss) ==
    IF \E k \in 1..Len(groups) : groups[k].key = key
    THEN [k \in 1..Len(groups) |->
            IF groups[k].key = key
            THEN [key |-> key, value |-> Append(groups[k].value, iss)]
            ELSE groups[k]]
    ELSE Append(groups, [key |-> key, value |-> <<iss>>])

\* the loop of lines 23-25, from the dict groups on
RECURSIVE OrganizeLoop(_, _)
OrganizeLoop(groups, issue_list) ==
    IF issue_list = <<>> THEN groups
    ELSE OrganizeLoop(AppendToGroup(groups,
                                    Get(Head(issue_list), "repository", "unknown"),
                                    Head(issue_list)),
                      Tail(issue_list))

\* organize_by_repository(issues)
organize_by_repository(issue_list) == OrganizeLoop(<<>>, issue_list)

-----------------------------------------------------------------------------
(* The issue lists that are organized *)

OrganizerIssuePool ==
    { [number |-> 1, repository |-> "owner/repo1"],
      [number |-> 2, repository |-> "owner/repo1"],
      [number |-> 3, repository |-> "owner/repo2"],
      [number |-> 4],
      [number |-> 5, repository |-> "unknown"] }

MaxOrganized == 4

OrganizerInit ==
    /\ issues_given \in UNION { [1..n -> OrganizerIssuePool] : n \in 0..MaxOrganized }
    /\ organized = <<>>

OrganizerIdle ==
    /\ issues_given = <<>>
    /\ organized = <<>>

\* organizer.organize_by_repository(issues)
OrganizeByRepository ==
    /\ organized = <<>>
    /\ organized' = << organize_by_repository(issues_given) >>
    /\ UNCHANGED issues_given

-----------------------------------------------------------------------------
(* DashboardManager (src/workflows/dashboard/dashboard_manager.py).  Several *)
(* invocations of the command line tool run at once, each a process of its   *)
(* own with its own DashboardManager; they share the PID file and the server *)
(* processes.  Every step below is one system call of an invocation.         *)

Invocations == {1, 2}

\* an invocation that is not inside a call; result is what its last call
\* returned or raised
AtRest(result) ==
    [op |-> "none", at |-> "rest", call_site |-> "none", pid |-> <<>>,
     process |-> <<>>, result |-> result]

\* the invocation c at another place of its code
Goto(c, place) == [calls[c] EXCEPT !.at = place]

\* what the caller does with the (is_running, pid) it gets back: start at
\* lines 58-64 and 101-117, stop at lines 121-125
AfterIsRunning(c, running, found) ==
    IF calls[c].op = "start" /\ calls[c].call_site = "check"
    THEN IF running THEN AtRest("False")
         ELSE [calls[c] EXCEPT !.at = "popen", !.pid = <<>>]
    ELSE IF calls[c].op = "start"
    THEN AtRest(IF running THEN "True" ELSE "False")
    ELSE IF running
    THEN [calls[c] EXCEPT !.at = "sigterm", !.pid = found]
    ELSE AtRest("True")

\* self.pid_file.write_text(str(process.pid)) (line 95)
WritePid(process_pid) == << Decimal(process_pid) >>

\* int(self.pid_file.read_text().strip()) (line 42)
ReadPid(text) == DigitsToInt(text[1])

-----------------------------------------------------------------------------
(* The invocations that are run *)

MaxCalls == 4
MaxSpawned == 3

DashboardInit ==
    /\ pid_file = <<>>
    /\ alive = {}
    /\ spawned = 0
    /\ calls = [c \in Invocations |-> AtRest("none")]
    /\ calls_made = 0

DashboardIdle ==
    /\ pid_file = <<>>
    /\ alive = {}
    /\ spawned = 0
    /\ calls = <<>>
    /\ calls_made = 0

\* dashboard_manager.py start: manager.start()
BeginStart(c) ==
    /\ calls[c].op = "none"
    /\ calls_made < MaxCalls
    /\ calls_made' = calls_made + 1
    /\ calls' = [calls EXCEPT ![c] =
                    [op |-> "start", at |-> "exists", call_site |-> "check",
                     pid |-> <<>>, process |-> <<>>, result |-> "none"]]
    /\ UNCHANGED <<pid_file, alive, spawned>>

\* dashboard_manager.py stop: manager.stop()
BeginStop(c) ==
    /\ calls[c].op = "none"
    /\ calls_made < MaxCalls
    /\ calls_made' = calls_made + 1
    /\ calls' = [calls EXCEPT ![c] =
                    [op |-> "stop", at |-> "exists", call_site |-> "stop",
                     pid |-> <<>>, process |-> <<>>, result |-> "none"]]
    /\ UNCHANGED <<pid_file, alive, spawned>>

\* is_running, line 38: self.pid_file.exists()
IsRunningExists(c) ==
    /\ calls[c].at = "exists"
    /\ calls' = [calls EXCEPT ![c] =
                    IF pid_file = <<>> THEN AfterIsRunning(c, FALSE, <<>>)
                    ELSE Goto(c, "read")]
    /\ UNCHANGED <<pid_file, alive, spawned, calls_made>>

\* is_running, line 42: the file is read; FileNotFoundError when it has been
\* removed since line 38 (line 53)
IsRunningRead(c) ==
    /\ calls[c].at = "read"
    /\ calls' = [calls EXCEPT ![c] =
                    IF pid_file = <<>> THEN AfterIsRunning(c, FALSE, <<>>)
                    ELSE [calls[c] EXCEPT !.at = "probe",
                                          !.pid = <<ReadPid(pid_file)>>]]
    /\ UNCHANGED <<pid_file, alive, spawned, calls_made>>

\* is_running, line 46: os.kill(pid, 0)
IsRunningProbe(c) ==
    /\ calls[c].at = "probe"
    /\ calls' = [calls EXCEPT ![c] =
                    IF calls[c].pid[1] \in alive
                    THEN AfterIsRunning(c, TRUE, calls[c].pid)
                    ELSE Goto(c, "unlink_stale")]
    /\ UNCHANGED <<pid_file, alive, spawned, calls_made>>

\* is_running, line 50: the PID file is removed, whatever it holds by now;
\* FileNotFoundError when it is gone already (line 53)
IsRunningUnlink(c) ==
    /\ calls[c].at = "unlink_stale"
    /\ pid_file' = <<>>
    /\ calls' = [calls EXCEPT ![c] = AfterIsRunning(c, FALSE, <<>>)]
    /\ UNCHANGED <<alive, spawned, calls_made>>

\* start, line 86: subprocess.Popen
StartPopen(c) ==
    /\ calls[c].at = "popen"
    /\ spawned < MaxSpawned
    /\ spawned' = spawned + 1
    /\ alive' = alive \cup {spawned + 1}
    /\ calls' = [calls EXCEPT ![c] =
                    [calls[c] EXCEPT !.at = "write_pid", !.process = <<spawned + 1>>]]
    /\ UNCHANGED <<pid_file, calls_made>>

\* start, line 95: the PID is saved; line 101 calls is_running again
StartWritePid(c) ==
    /\ calls[c].at = "write_pid"
    /\ pid_file' = WritePid(calls[c].process[1])
    /\ calls' = [calls EXCEPT ![c] =
                    [calls[c] EXCEPT !.at = "exists", !.call_site = "verify"]]
    /\ UNCHANGED <<alive, spawned, calls_made>>

\* stop, line 131: os.kill(pid, SIGTERM); OSError when the process is gone
StopSigterm(c) ==
    /\ calls[c].at = "sigterm"
    /\ calls' = [calls EXCEPT ![c] =
                    IF calls[c].pid[1] \in alive THEN Goto(c, "wait")
                    ELSE Goto(c, "error_exists")]
    /\ UNCHANGED <<pid_file, alive, spawned, calls_made>>

\* stop, lines 134-141: the process is gone within five seconds, or it is not
StopWait(c) ==
    /\ calls[c].at = "wait"
    /\ calls' = [calls EXCEPT ![c] =
                    IF calls[c].pid[1] \in alive THEN Goto(c, "sigkill")
                    ELSE Goto(c, "cleanup_exists")]
    /\ UNCHANGED <<pid_file, alive, spawned, calls_made>>

\* stop, line 144: os.kill(pid, SIGKILL); OSError when the process is gone
StopSigkill(c) ==
    /\ calls[c].at = "sigkill"
    /\ alive' = alive \ {calls[c].pid[1]}
    /\ calls' = [calls EXCEPT ![c] =
                    IF calls[c].pid[1] \in alive THEN Goto(c, "cleanup_exists")
                    ELSE Goto(c, "error_exists")]
    /\ UNCHANGED <<pid_file, spawned, calls_made>>

\* stop, line 148: self.pid_file.exists()
StopCleanupExists(c) ==
    /\ calls[c].at = "cleanup_exists"
    /\ calls' = [calls EXCEPT ![c] =
                    IF pid_file = <<>> THEN AtRest("True")
                    ELSE Goto(c, "cleanup_unlink")]
    /\ UNCHANGED <<pid_file, alive, spawned, calls_made>>

\* stop, line 149: self.pid_file.unlink(); the FileNotFoundError of a file
\* removed since line 148 is an OSError (line 154)
StopCleanupUnlink(c) ==
    /\ calls[c].at = "cleanup_unlink"
    /\ pid_file' = <<>>
    /\ calls' = [calls EXCEPT ![c] =
                    IF pid_file = <<>> THEN Goto(c, "error_exists")
                    ELSE AtRest("True")]
    /\ UNCHANGED <<alive, spawned, calls_made>>

\* stop, line 157: self.pid_file.exists()
StopErrorExists(c) ==
    /\ calls[c].at = "error_exists"
    /\ calls' = [calls EXCEPT ![c] =
                    IF pid_file = <<>> THEN AtRest("False")
                    ELSE Goto(c, "error_unlink")]
    /\ UNCHANGED <<pid_file, alive, spawned, calls_made>>

\* stop, line 158: self.pid_file.unlink(); nothing catches the
\* FileNotFoundError of a file removed since line 157
StopErrorUnlink(c) ==
    /\ calls[c].at = "error_unlink"
    /\ pid_file' = <<>>
    /\ calls' = [calls EXCEPT ![c] =
                    IF pid_file = <<>> THEN AtRest("FileNotFoundError")
                    ELSE AtRest("False")]
    /\ UNCHANGED <<alive, spawned, calls_made>>

\* a server process ends: on the SIGTERM of a stop, or by itself
ProcessExits ==
    /\ \E server \in alive : alive' = alive \ {server}
    /\ UNCHANGED <<pid_file, calls, spawned, calls_made>>

-----------------------------------------------------------------------------
(* The workflows at rest *)

WorkflowIdle ==
    MilestoneIdle /\ TrendIdle /\ ChangesIdle /\ VelocityIdle /\ MergeIdle

coreVars == <<statusVars, commitVars, aggVars, flowVars>>

CoreIdle == StatusIdle /\ CommitIdle /\ AggIdle /\ FlowIdle

ToolIdle == CollectorIdle /\ OrganizerIdle /\ DashboardIdle

-----------------------------------------------------------------------------
(* The status classifier applied to every issue of Issues *)

InitStatus == StatusInit /\ CommitIdle /\ AggIdle /\ FlowIdle /\ WorkflowIdle /\ ToolIdle

NextStatus ==
    \/ ExtractStatus /\ UNCHANGED <<commitVars, aggVars, flowVars, workflowVars, toolVars>>
    \/ ExtractStatusFromLabels
          /\ UNCHANGED <<commitVars, aggVars, flowVars, workflowVars, toolVars>>

SpecStatus == InitStatus /\ [][NextStatus]_vars

(* The two commit classifier functions applied to every message of Messages *)

InitCommit == StatusIdle /\ CommitInit /\ AggIdle /\ FlowIdle /\ WorkflowIdle /\ ToolIdle

NextCommit ==
    \/ ParseConventionalCommit /\ UNCHANGED <<statusVars, aggVars, flowVars, workflowVars, toolVars>>
    \/ ExtractIssueReferences /\ UNCHANGED <<statusVars, aggVars, flowVars, workflowVars, toolVars>>

SpecCommit == InitCommit /\ [][NextCommit]_vars

(* analyze_commits called up to MaxRuns times on every list of CommitLists, *)
(* with calls on other lists in between                                     *)

InitAgg == StatusIdle /\ CommitIdle /\ AggInit /\ FlowIdle /\ WorkflowIdle /\ ToolIdle

NextAgg ==
    \/ AnalyzeCommits /\ UNCHANGED <<statusVars, commitVars, flowVars, workflowVars, toolVars>>
    \/ AnalyzeOther /\ UNCHANGED <<statusVars, commitVars, flowVars, workflowVars, toolVars>>

SpecAgg == InitAgg /\ [][NextAgg]_vars

(* analyze_flow_health applied to every status distribution within the bounds *)

InitFlow == StatusIdle /\ CommitIdle /\ AggIdle /\ FlowInit /\ WorkflowIdle /\ ToolIdle

NextFlow == AnalyzeFlowHealth /\ UNCHANGED <<statusVars, commitVars, aggVars, workflowVars, toolVars>>

SpecFlow == InitFlow /\ [][NextFlow]_vars

(* analyze_milestone applied to every milestone and velocity within the bounds *)

InitMilestone ==
    /\ CoreIdle /\ ToolIdle
    /\ MilestoneInit /\ TrendIdle /\ ChangesIdle /\ VelocityIdle /\ MergeIdle

NextMilestone ==
    AnalyzeMilestone
        /\ UNCHANGED <<coreVars, trendVars, changesVars, velocityVars, mergeVars, toolVars>>

SpecMilestone == InitMilestone /\ [][NextMilestone]_vars

(* The two period comparisons: compare applied to every pair of snapshots, *)
(* and _calculate_changes to every pair of periods, within the bounds       *)

InitCompare ==
    /\ CoreIdle
    /\ ToolIdle
    /\ MilestoneIdle
    /\ VelocityIdle
    /\ MergeIdle
    /\ \/ TrendInit /\ ChangesIdle
       \/ TrendIdle /\ ChangesInit

NextCompare ==
    \/ Compare
          /\ UNCHANGED <<coreVars, milestoneVars, changesVars, velocityVars, mergeVars, toolVars>>
    \/ CalculateChanges
          /\ UNCHANGED <<coreVars, milestoneVars, trendVars, velocityVars, mergeVars, toolVars>>

SpecCompare == InitCompare /\ [][NextCompare]_vars

-----------------------------------------------------------------------------
(* _calculate_trends applied to every list of cycles within the bounds *)

InitVelocity ==
    /\ CoreIdle /\ ToolIdle
    /\ MilestoneIdle /\ TrendIdle /\ ChangesIdle /\ VelocityInit /\ MergeIdle

NextVelocity ==
    CalculateTrends
        /\ UNCHANGED <<coreVars, milestoneVars, trendVars, changesVars, mergeVars, toolVars>>

SpecVelocity == InitVelocity /\ [][NextVelocity]_vars

-----------------------------------------------------------------------------
(* analyze_period and analyze_cycle over the repositories, in every order *)

InitMerge ==
    /\ CoreIdle /\ ToolIdle
    /\ MilestoneIdle /\ TrendIdle /\ ChangesIdle /\ VelocityIdle /\ MergeInit

NextMerge ==
    \/ PeriodStep
          /\ UNCHANGED <<coreVars, milestoneVars, trendVars, changesVars, velocityVars, toolVars>>
    \/ PeriodReturn
          /\ UNCHANGED <<coreVars, milestoneVars, trendVars, changesVars, velocityVars, toolVars>>
    \/ CycleStep
          /\ UNCHANGED <<coreVars, milestoneVars, trendVars, changesVars, velocityVars, toolVars>>
    \/ CycleReturn
          /\ UNCHANGED <<coreVars, milestoneVars, trendVars, changesVars, velocityVars, toolVars>>

SpecMerge == InitMerge /\ [][NextMerge]_vars

-----------------------------------------------------------------------------
(* The snapshots of a DataCollector: up to MaxSnapshots create_snapshot    *)
(* calls over the days of Dates, listed and loaded at any time in between *)

InitCollector == CoreIdle /\ WorkflowIdle /\ CollectorInit /\ OrganizerIdle /\ DashboardIdle

NextCollector ==
    \/ NextDay /\ UNCHANGED <<coreVars, workflowVars, organizerVars, dashboardVars>>
    \/ CreateSnapshot /\ UNCHANGED <<coreVars, workflowVars, organizerVars, dashboardVars>>
    \/ ListSnapshots /\ UNCHANGED <<coreVars, workflowVars, organizerVars, dashboardVars>>
    \/ LoadSnapshot /\ UNCHANGED <<coreVars, workflowVars, organizerVars, dashboardVars>>

SpecCollector == InitCollector /\ [][NextCollector]_vars

-----------------------------------------------------------------------------
(* organize_by_repository applied to every issue list within the bounds *)

InitOrganizer == CoreIdle /\ WorkflowIdle /\ CollectorIdle /\ OrganizerInit /\ DashboardIdle

NextOrganizer ==
    OrganizeByRepository
        /\ UNCHANGED <<coreVars, workflowVars, collectorVars, dashboardVars>>

SpecOrganizer == InitOrganizer /\ [][NextOrganizer]_vars

-----------------------------------------------------------------------------
(* The invocations of the dashboard manager, their system calls interleaved *)
(* in every way                                                             *)

InitDashboard == CoreIdle /\ WorkflowIdle /\ CollectorIdle /\ OrganizerIdle /\ DashboardInit

\* what no step of the dashboard manager touches
DashboardFrame == UNCHANGED <<coreVars, workflowVars, collectorVars, organizerVars>>

NextDashboard ==
    \/ \E c \in Invocations : BeginStart(c) /\ DashboardFrame
    \/ \E c \in Invocations : BeginStop(c) /\ DashboardFrame
    \/ \E c \in Invocations : IsRunningExists(c) /\ DashboardFrame
    \/ \E c \in Invocations : IsRunningRead(c) /\ DashboardFrame
    \/ \E c \in Invocations : IsRunningProbe(c) /\ DashboardFrame
    \/ \E c \in Invocations : IsRunningUnlink(c) /\ DashboardFrame
    \/ \E c \in Invocations : StartPopen(c) /\ DashboardFrame
    \/ \E c \in Invocations : StartWritePid(c) /\ DashboardFrame
    \/ \E c \in Invocations : StopSigterm(c) /\ DashboardFrame
    \/ \E c \in Invocations : StopWait(c) /\ DashboardFrame
    \/ \E c \in Invocations : StopSigkill(c) /\ DashboardFrame
    \/ \E c \in Invocations : StopCleanupExists(c) /\ DashboardFrame
    \/ \E c \in Invocations : StopCleanupUnlink(c) /\ DashboardFrame
    \/ \E c \in Invocations : StopErrorExists(c) /\ DashboardFrame
    \/ \E c \in Invocations : StopErrorUnlink(c) /\ DashboardFrame
    \/ ProcessExits /\ DashboardFrame

SpecDashboard == InitDashboard /\ [][NextDashboard]_vars

-----------------------------------------------------------------------------
(* Properties of the status classifier (under SpecStatus) *)

IssueState == Get(issue, "state", "UNKNOWN")

WorkflowStatuses == {"backlog", "ready", "in_progress", "in_review", "done"}

\* the order in which the pattern groups are to be consulted
GroupOrder == <<"backlog", "ready", "in_progress", "in_review", "done">>

\* the literal variants of the group called name
PatternsOf(name) ==
    LET g == CHOOSE k \in 1..Len(STATUS_PATTERNS) : STATUS_PATTERNS[k].status = name
    IN  {STATUS_PATTERNS[g].patterns[p] : p \in 1..Len(STATUS_PATTERNS[g].patterns)}

\* the issue's label names, lower-cased, as a set: their order is forgotten
LoweredNames ==
    LET labels == Get(issue, "labels", <<>>)
    IN  {Lower(Get(labels[i], "name", <<>>)) : i \in 1..Len(labels)}

\* the positions in GroupOrder of the groups one of the labels belongs to
GroupsMatched == {g \in 1..Len(GroupOrder) : PatternsOf(GroupOrder[g]) \cap LoweredNames # {}}

\* C1: every issue whose state is CLOSED classifies as done, whatever its
\* labels are.
C1_ClosedIsDone ==
    (status # NotRun /\ IssueState = "CLOSED") => status = "done"

\* C2: an OPEN issue classifies as exactly one of the five statuses: that of
\* the first group, in the order backlog, ready, in_progress, in_review,
\* done, that holds one of its lower-cased label names, whatever the order
\* of the labels; backlog when no group holds one.
C2_FirstGroupWins ==
    (status # NotRun /\ IssueState = "OPEN") =>
        /\ status \in WorkflowStatuses
        /\ IF GroupsMatched = {}
           THEN status = "backlog"
           ELSE status = GroupOrder[CHOOSE g \in GroupsMatched :
                                        \A h \in GroupsMatched : g <= h]

\* an OPEN issue labelled WIP, then ready, has been classified as ready
C2_Witness ==
    /\ status = "ready"
    /\ IssueState = "OPEN"
    /\ label_names(issue) = << <<"w", "i", "p">>, <<"r", "e", "a", "d", "y">> >>

-----------------------------------------------------------------------------
(* Properties of the commit classifier (under SpecCommit) *)

ConventionalTypes ==
    {CONVENTIONAL_COMMIT_TYPES[k] : k \in 1..Len(CONVENTIONAL_COMMIT_TYPES)}

\* r is nothing, "!", "(scope)" or "(scope)!" with a non-empty scope that
\* holds no ")"
IsQualifier(r) ==
    \/ r \in { <<>>, <<"!">> }
    \/ /\ Len(r) >= 3
       /\ r[1] = "("
       /\ \E q \in 3..Len(r) :
            /\ r[q] = ")"
            /\ \A j \in 2..(q - 1) : r[j] # ")"
            /\ Slice(r, q + 1, Len(r)) \in { <<>>, <<"!">> }

\* h is type[(scope)][!]
IsHeader(h) ==
    \E t \in ConventionalTypes :
        /\ StartsAt(h, 1, t)
        /\ IsQualifier(Slice(h, Len(t) + 1, Len(h)))

\* the positions of the colon that make line read type[(scope)][!]: description
\* with a description of at least one character
GrammarColons(line) ==
    {c \in 1..(Len(line) - 1) : line[c] = ":" /\ IsHeader(Slice(line, 1, c - 1))}

\* what parse_conventional_commit is to return when line is of the grammar
ParsedAsGrammar(line) ==
    GrammarColons(line) # {} =>
        /\ parsed # <<>>
        /\ parsed[1].type \in ConventionalTypes
        /\ Cardinality(ConventionalTypes) = 11
        /\ \A c \in GrammarColons(line) :
                parsed[1].breaking <=> (line[c - 1] = "!")
        /\ parsed[1].raw = line

\* C3 as stated: when the message's first line is of the grammar, the record
\* has one of the 11 types, is breaking exactly when "!" stands before the
\* colon, and its raw field is that original first line.
C3_RawIsOriginalFirstLine ==
    op = "parse_conventional_commit" => ParsedAsGrammar(FirstLine(message))

\* C3 as amended: when the message's first line, leading and trailing
\* whitespace removed, is of the grammar, the record has one of the 11
\* types, is breaking exactly when "!" stands before the colon, and its raw
\* field is that stripped first line.
C3_RawIsStrippedFirstLine ==
    op = "parse_conventional_commit" => ParsedAsGrammar(Strip(FirstLine(message)))

\* a breaking commit has been parsed whose first line had whitespace to strip
C3_Witness ==
    /\ op = "parse_conventional_commit"
    /\ parsed # <<>>
    /\ parsed[1].breaking
    /\ parsed[1].raw # FirstLine(message)

\* the positions of the "#" that a digit follows
HashPositions(s) == {i \in 1..(Len(s) - 1) : s[i] = "#" /\ IsDigit(s[i + 1])}

\* the k-th of them from the left
NthHash(s, k) ==
    CHOOSE i \in HashPositions(s) :
        Cardinality({j \in HashPositions(s) : j < i}) = k - 1

\* the decimal value of s[a..b]
RECURSIVE DecimalValue(_, _, _)
DecimalValue(s, a, b) ==
    IF a > b THEN 0 ELSE 10 * DecimalValue(s, a, b - 1) + DigitValue(s[b])

\* the number written by the digits that follow the "#" at position i
NumberAfter(s, i) ==
    DecimalValue(s, i + 1,
        CHOOSE e \in (i + 1)..Len(s) :
            /\ \A j \in (i + 1)..e : IsDigit(s[j])
            /\ (e = Len(s) \/ ~IsDigit(s[e + 1])))

\* C4: the references returned are the numbers of all the #<digits> of the
\* whole message, in order of appearance, duplicates kept, verb or no verb,
\* conventional first line or not; none when there is no #<digits>.
C4_AllHashDigitsInOrder ==
    op = "extract_issue_references" =>
        /\ Len(refs) = Cardinality(HashPositions(message))
        /\ \A k \in 1..Len(refs) : refs[k] = NumberAfter(message, NthHash(message, k))

\* the same bare reference found twice, the second one after a newline
C4_Witness ==
    /\ op = "extract_issue_references"
    /\ Len(refs) = 2
    /\ refs[1] = refs[2]
    /\ \E i \in 1..Len(message) :
          /\ message[i] = "\n"
          /\ \E j \in (i + 1)..Len(message) : message[j] = "#"
    /\ ~\E i \in 1..Len(message) : message[i] = "e"

-----------------------------------------------------------------------------
(* Properties of analyze_commits (under SpecAgg) *)

RECURSIVE SumOf(_)
SumOf(items) == IF items = <<>> THEN 0 ELSE Head(items).n + SumOf(Tail(items))

\* the commit record has no message field
HasNoMessage(commit) == "message" \notin DOMAIN Get(commit, "commit", EmptyDict)

\* the commit record has a non-empty author date
IsDated(commit) ==
    /\ "commit" \in DOMAIN commit
    /\ "author" \in DOMAIN commit.commit
    /\ "date" \in DOMAIN commit.commit.author
    /\ commit.commit.author.date # <<>>

Aggregates == {results[i].value : i \in 1..Len(results)}

\* C5: conventional_commits <= total_commits, and conventional_percentage is
\* 100 * conventional_commits / total_commits, 0 for the empty list.
C5_PercentageOfTotal ==
    \A a \in Aggregates :
        /\ a.total_commits = Len(commits)
        /\ a.conventional_commits <= a.total_commits
        /\ a.conventional_percentage.den > 0
        /\ IF a.total_commits > 0
           THEN a.conventional_percentage.num * a.total_commits
                    = 100 * a.conventional_commits * a.conventional_percentage.den
           ELSE a.conventional_percentage.num = 0

\* two commits analysed, one of them conventional
C5_Witness ==
    \E a \in Aggregates : a.total_commits = 2 /\ a.conventional_commits = 1

\* C6 as stated: commit_types sums to conventional_commits, authors to
\* total_commits and daily_commits to total_commits.
C6_HistogramsSumToTotals ==
    \A a \in Aggregates :
        /\ SumOf(a.commit_types) = a.conventional_commits
        /\ SumOf(a.authors) = a.total_commits
        /\ SumOf(a.daily_commits) = a.total_commits

\* C6 as amended: commit_types sums to conventional_commits, authors to
\* total_commits, and daily_commits to the number of commits that carry a
\* non-empty author date.
C6_DailySumsToDatedCommits ==
    \A a \in Aggregates :
        /\ SumOf(a.commit_types) = a.conventional_commits
        /\ SumOf(a.authors) = a.total_commits
        /\ SumOf(a.daily_commits)
              = Cardinality({i \in 1..Len(commits) : IsDated(commits[i])})

\* a dated and an undated commit analysed together
C6_Witness ==
    /\ \E a \in Aggregates : SumOf(a.daily_commits) = 1 /\ a.total_commits = 2
    /\ \E i \in 1..Len(commits) : ~IsDated(commits[i])

\* C7 as stated: a list holding a commit record with no message field is
\* rejected with an error.
C7_MissingMessageRejected ==
    \A i \in 1..Len(results) :
        (\E k \in 1..Len(commits) : HasNoMessage(commits[k]))
            => results[i].outcome = "raised"

\* C7 as amended: a commit record with no message field is not rejected: it
\* is treated as a commit with an empty message (not conventional, no issue
\* reference) and counted in total_commits.
C7_MissingMessageCounted ==
    \A i \in 1..Len(results) :
        /\ results[i].outcome = "returned"
        /\ results[i].value.total_commits = Len(commits)
        /\ Len(results[i].value.commits) = Len(commits)
        /\ \A k \in 1..Len(commits) :
              HasNoMessage(commits[k]) =>
                  /\ results[i].value.commits[k].full_message = <<>>
                  /\ results[i].value.commits[k].conventional = <<>>
                  /\ results[i].value.commits[k].issues = <<>>

\* a list with a record that has no message and one that has no commit object
C7_Witness ==
    /\ results # <<>>
    /\ \E k \in 1..Len(commits) : commits[k] = CommitNoMessage
    /\ \E k \in 1..Len(commits) : commits[k] = CommitBare

\* C8: all invocations on the same list return the same aggregate, whatever
\* was analysed before or in between.
C8_SameListSameAggregate ==
    \A i, j \in 1..Len(results) :
        /\ results[i].outcome = results[j].outcome
        /\ results[i].value = results[j].value

\* the list analysed twice, the second time after a call on another list
C8_Witness ==
    /\ Len(results) = 2
    /\ results[1].value.conventional_commits > 0
    /\ results[2].entered_after # <<>>
    /\ results[2].entered_after[1].parsed_commits # results[1].value.commits

-----------------------------------------------------------------------------
(* Properties of analyze_flow_health (under SpecFlow) *)

CountOf(st) == Get(counts, st, 0)

BottleneckTypes ==
    {health[1].bottlenecks[i].type : i \in 1..Len(health[1].bottlenecks)}

\* C9: ready_pileup iff ready > 3 * in_progress and ready > 5; no_reviews iff
\* in_progress > 5 and in_review = 0; review_bottleneck iff in_review > 5;
\* grooming_needed iff backlog > 5 * ready and ready < 3; each decided on its
\* own, and no other type reported.
C9_BottleneckRules ==
    health # <<>> =>
        /\ "ready_pileup" \in BottleneckTypes
              <=> (CountOf("ready") > 3 * CountOf("in_progress") /\ CountOf("ready") > 5)
        /\ "no_reviews" \in BottleneckTypes
              <=> (CountOf("in_progress") > 5 /\ CountOf("in_review") = 0)
        /\ "review_bottleneck" \in BottleneckTypes
              <=> CountOf("in_review") > 5
        /\ "grooming_needed" \in BottleneckTypes
              <=> (CountOf("backlog") > 5 * CountOf("ready") /\ CountOf("ready") < 3)
        /\ BottleneckTypes \subseteq
              {"ready_pileup", "no_reviews", "review_bottleneck", "grooming_needed"}

\* ready=10, in_progress=2, in_review=0, backlog=1: ready_pileup and nothing
\* else
C9_Witness ==
    /\ health # <<>>
    /\ CountOf("ready") = 10 /\ CountOf("in_progress") = 2
    /\ CountOf("in_review") = 0 /\ CountOf("backlog") = 1
    /\ BottleneckTypes = {"ready_pileup"}

\* C10: wip_total = in_progress + in_review; wip_health is healthy iff
\* wip_total <= 3 and overloaded otherwise; the WIP recommendation is there
\* iff wip_health is overloaded; ready, backlog and done play no part.
C10_WipHealth ==
    health # <<>> =>
        LET wip == CountOf("in_progress") + CountOf("in_review")
            recs == health[1].recommendations
        IN  /\ health[1].wip_total = wip
            /\ health[1].wip_health = (IF wip <= 3 THEN "healthy" ELSE "overloaded")
            /\ (\E i \in 1..Len(recs) : recs[i] = WipRecommendation(wip))
                  <=> health[1].wip_health = "overloaded"

\* four items in progress or in review next to many ready, backlog and done
C10_Witness ==
    /\ health # <<>>
    /\ CountOf("in_progress") = 2 /\ CountOf("in_review") = 2
    /\ CountOf("ready") = 10 /\ CountOf("backlog") = 11 /\ CountOf("done") = 1
    /\ health[1].wip_health = "overloaded"
    /\ health[1].recommendations[Len(health[1].recommendations)] = WipRecommendation(4)

-----------------------------------------------------------------------------
(* Properties of analyze_milestone (under SpecMilestone) *)

MilestoneHealthTier == milestone_analysis[1].value.health

DueOn == Get(milestone, "due_on", <<>>)

\* the milestone has no due date: no due_on, or an empty one
HasNoDueDate == DueOn = <<>>

\* the milestone has a due date that parses
HasDueDate == DueOn # <<>> /\ DueOn[1].form = "utc"

\* the milestone has a due_on that does not parse
HasGarbledDueDate == DueOn # <<>> /\ DueOn[1].form = "garbled"

\* the rules of the claim for an open milestone due in days_until_due days
TierByDueDate(days_until_due, predicted_days, progress) ==
    IF days_until_due < 0 THEN "overdue"
    ELSE IF 2 * predicted_days > 3 * days_until_due THEN "at_risk"
    ELSE IF 5 * predicted_days > 6 * days_until_due THEN "behind"
    ELSE IF progress.num > 80 * progress.den THEN "on_track"
    ELSE "good"

C12_GarbledDueDateIsUnknown ==
    (milestone_analysis # <<>> /\ HasGarbledDueDate)
        => MilestoneHealthTier = "unknown"

\* C13: the forecast divides by max(issues_per_week, 0.5), whatever the
\* velocity: weeks_remaining = remaining / max(issues_per_week, 0.5), which
\* is finite and at most 2 * remaining.
C13_VelocityFloor ==
    milestone_analysis # <<>> =>
        LET given == velocity.issues_per_week
            used  == IF 2 * given.num < given.den
                     THEN [num |-> 1, den |-> 2] ELSE given
            weeks == milestone_analysis[1].locals.weeks_remaining
        IN  /\ milestone_analysis[1].locals.issues_per_week = used
            /\ used.num > 0
            /\ weeks.den > 0
            /\ weeks.num * used.num = milestone.open_issues * used.den * weeks.den
            /\ weeks.num <= 2 * milestone.open_issues * weeks.den
            /\ milestone_analysis[1].value.predicted_days_remaining
                  <= 14 * milestone.open_issues

\* three issues remain at velocity zero: six weeks
C13_Witness ==
    /\ milestone_analysis # <<>>
    /\ velocity.issues_per_week.num = 0
    /\ milestone.open_issues = 3
    /\ milestone_analysis[1].locals.weeks_remaining = [num |-> 6, den |-> 1]

\* what C14 says of a milestone whose issues are all completed, but for the
\* open milestone with a due date, whose tier is with_due_date
AllCompleted(with_due_date) ==
    /\ (milestone.open_issues = 0 /\ milestone.closed_issues > 0) =>
          /\ milestone_analysis[1].value.progress_percentage = [num |-> 100, den |-> 1]
          /\ milestone.state = "closed" => MilestoneHealthTier = "completed"
          /\ (milestone.state = "open" /\ HasNoDueDate) =>
                MilestoneHealthTier = "ready_to_close"
          /\ (milestone.state = "open" /\ HasDueDate) =>
                MilestoneHealthTier = with_due_date
    /\ milestone.open_issues + milestone.closed_issues = 0 =>
          milestone_analysis[1].value.progress_percentage.num = 0

\* C14 as stated: with total > 0 and nothing remaining, progress is 100 and
\* health is completed when closed, ready_to_close when open without a due
\* date, on_track when open with a due date; progress is 0 when total = 0.
C14_AllCompletedIsOnTrack ==
    milestone_analysis # <<>> => AllCompleted("on_track")

\* C14 as amended: with total > 0 and nothing remaining, progress is 100 and
\* health is completed when closed, ready_to_close when open without a due
\* date, and when open with a due date on_track if that date has not passed
\* and overdue if it has; progress is 0 when total = 0.
C14_AllCompletedIsOnTrackUnlessOverdue ==
    milestone_analysis # <<>> =>
        AllCompleted(IF HasDueDate /\ DueOn[1].days < 0 THEN "overdue" ELSE "on_track")

\* an open milestone, all of its issues completed, whose due date has passed
C14_Witness ==
    /\ milestone_analysis # <<>>
    /\ milestone.state = "open"
    /\ milestone.open_issues = 0
    /\ milestone.closed_issues > 0
    /\ HasDueDate
    /\ DueOn[1].days < 0
    /\ MilestoneHealthTier = "overdue"

-----------------------------------------------------------------------------
(* Properties of the two period comparisons (under SpecCompare) *)

\* the items of a list, as a set
Items(items) == {items[i] : i \in 1..Len(items)}

\* a change record of either comparison, its fields under one set of names
ChangeRecord(dimension, baseline_count, current_count, absolute, percent) ==
    [dimension |-> dimension, baseline |-> baseline_count, current |-> current_count,
     absolute |-> absolute, percent |-> percent]

\* the change records of what compare returned
SnapshotChangeRecords(res) ==
    { ChangeRecord("overall", res.overall_changes.baseline_total,
                   res.overall_changes.current_total,
                   res.overall_changes.absolute_change,
                   res.overall_changes.percent_change) }
    \cup { ChangeRecord("state", res.state_changes[s].baseline, res.state_changes[s].current,
                        res.state_changes[s].change, res.state_changes[s].percent_change) :
             s \in DOMAIN res.state_changes }
    \cup { ChangeRecord("repository", r.baseline, r.current, r.change, r.percent_change) :
             r \in Items(res.repository_changes) }
    \cup { ChangeRecord("label", l.baseline, l.current, l.change, l.percent_change) :
             l \in Items(res.label_changes) }

\* the change records of the counts in what _calculate_changes returned
CountChangeRecords(res) ==
    { ChangeRecord("count", c.previous, c.current, c.difference, c.percent_change) :
        c \in {res.commits, res.conventional_commits, res.breaking_changes} }

\* every change record there is in the state
ChangeRecords ==
    (IF comparison # <<>> THEN SnapshotChangeRecords(comparison[1]) ELSE {})
    \cup (IF period_changes # <<>> THEN CountChangeRecords(period_changes[1]) ELSE {})

\* the fraction p is a / b
IsRatio(p, a, b) == p.num * b = a * p.den

\* the fraction p is a number of hundredths, and one nearest to a / b
IsRatioToTheHundredth(p, a, b) ==
    /\ 100 % p.den = 0
    /\ 200 * Abs(p.num * b - a * p.den) <= p.den * b

\* C15 as stated: in every change record the absolute change is current
\* minus baseline, and the percent change is absolute / baseline * 100 when
\* the baseline is positive and 0 when it is 0.
C15_PercentOfBaseline ==
    \A r \in ChangeRecords :
        /\ r.absolute = r.current - r.baseline
        /\ IF r.baseline > 0 THEN IsRatio(r.percent, r.absolute * 100, r.baseline)
           ELSE IsRatio(r.percent, 0, 1)

\* C15, amended: in every change record the absolute change is current minus
\* baseline.  With a positive baseline the percent change is absolute /
\* baseline * 100, to the nearest hundredth in the records of compare and
\* as it is in the counts of _calculate_changes; with baseline 0 it is 100
\* for a label and 0 for every other dimension.
C15_PercentOfBaselineRoundedAndLabels ==
    \A r \in ChangeRecords :
        /\ r.absolute = r.current - r.baseline
        /\ IF r.baseline > 0
           THEN IF r.dimension = "count"
                THEN IsRatio(r.percent, r.absolute * 100, r.baseline)
                ELSE IsRatioToTheHundredth(r.percent, r.absolute * 100, r.baseline)
           ELSE IF r.dimension = "label" THEN IsRatio(r.percent, 100, 1)
                ELSE IsRatio(r.percent, 0, 1)

\* compare has met a label without a baseline, a repository without a
\* baseline, and a percentage that is not a whole number of hundredths
C15_Witness ==
    /\ comparison # <<>>
    /\ \E r \in ChangeRecords :
          r.dimension = "label" /\ r.baseline = 0 /\ r.current >= NoiseFloor
    /\ \E r \in ChangeRecords :
          r.dimension = "repository" /\ r.baseline = 0 /\ r.current > 0
    /\ \E r \in ChangeRecords :
          /\ r.baseline > 0
          /\ ~IsRatio(r.percent, r.absolute * 100, r.baseline)

\* _calculate_changes has met a count that grew from nothing and one
\* that grew by a third
C15_CountsWitness ==
    /\ period_changes # <<>>
    /\ period_changes[1].conventional_commits.previous = 0
    /\ period_changes[1].conventional_commits.current > 0
    /\ period_changes[1].commits.previous = 3
    /\ period_changes[1].commits.current = 4

\* the records of what compare returned that carry is_significant
FlaggedRecords(res) ==
    { [dimension |-> "overall", baseline |-> res.overall_changes.baseline_total,
       current |-> res.overall_changes.current_total,
       absolute |-> res.overall_changes.absolute_change,
       percent |-> res.overall_changes.percent_change,
       is_significant |-> res.overall_changes.is_significant] }
    \cup { [dimension |-> "repository", baseline |-> r.baseline, current |-> r.current,
            absolute |-> r.change, percent |-> r.percent_change,
            is_significant |-> r.is_significant] :
             r \in Items(res.repository_changes) }

\* a / b >= threshold, for b > 0
ReachesThreshold(a, b, threshold) == a * threshold.den >= threshold.num * b

\* from nothing to five at the threshold of 0.20: a change of 5, of 0 percent,
\* that is not significant
FromNothingToFive(r) ==
    (r.baseline = 0 /\ r.current = 5 /\ comparator.threshold = DefaultThreshold)
        => /\ r.absolute = 5
           /\ IsRatio(r.percent, 0, 1)
           /\ ~r.is_significant

\* C16 as stated: is_significant of the overall record and of each repository
\* record is true iff |percent_change| / 100 of that record >= threshold,
\* and from 0 to 5 at the default threshold the record has absolute change 5,
\* percent change 0 and is not significant.
C16_SignificantIffReportedPercentReachesThreshold ==
    comparison # <<>> =>
        \A r \in FlaggedRecords(comparison[1]) :
            /\ r.is_significant
                  <=> ReachesThreshold(Abs(r.percent.num), r.percent.den * 100,
                                       comparator.threshold)
            /\ FromNothingToFive(r)

\* C16, amended: is_significant of the overall record and of each repository
\* record is true iff |p| / 100 >= threshold, p being the percent change
\* before it is rounded (absolute / baseline * 100, and 0 when the baseline
\* is 0); and from 0 to 5 at the default threshold the record has absolute
\* change 5, percent change 0 and is not significant.
C16_SignificantIffPercentReachesThreshold ==
    comparison # <<>> =>
        \A r \in FlaggedRecords(comparison[1]) :
            /\ r.is_significant
                  <=> IF r.baseline > 0
                      THEN ReachesThreshold(Abs(r.absolute) * 100, r.baseline * 100,
                                            comparator.threshold)
                      ELSE ReachesThreshold(0, 1, comparator.threshold)
            /\ FromNothingToFive(r)

\* at the default threshold the total went from 5 to 6, exactly 20%, and is
\* flagged, while a repository that went from nothing to five is not
C16_Witness ==
    /\ comparison # <<>>
    /\ comparator.threshold = DefaultThreshold
    /\ comparison[1].overall_changes.baseline_total = 5
    /\ comparison[1].overall_changes.current_total = 6
    /\ comparison[1].overall_changes.is_significant
    /\ \E r \in FlaggedRecords(comparison[1]) :
          /\ r.dimension = "repository"
          /\ r.baseline = 0
          /\ r.current = 5
          /\ ~r.is_significant

\* the repositories the insights name
NamedRepositories ==
    { comparison[1].insights[i].subject :
        i \in { j \in 1..Len(comparison[1].insights) :
                  comparison[1].insights[j].kind = "repository" } }

\* C18: the repository insights name at most 3 repositories, and no
\* repository is named while a repository that qualifies for an insight (a
\* significant one) with a strictly larger |change| is left out.
C18_LargestRepositoryChangesNamed ==
    comparison # <<>> =>
        /\ Cardinality(NamedRepositories) <= 3
        /\ \A named, left_out \in Items(comparison[1].repository_changes) :
              (/\ named.key \in NamedRepositories
               /\ left_out.key \notin NamedRepositories
               /\ left_out.is_significant)
                  => Abs(left_out.change) <= Abs(named.change)

\* what the code does: the insights name the first three significant
\* repositories in the order the set of repositories was iterated in
C18_FirstThreeSignificantNamed ==
    comparison # <<>> =>
        LET repo_changes == comparison[1].repository_changes
        IN  \A i \in 1..Len(repo_changes) :
                repo_changes[i].key \in NamedRepositories
                    <=> /\ repo_changes[i].is_significant
                        /\ Cardinality({j \in 1..(i - 1) : repo_changes[j].is_significant})
                              < TopRepositories

\* four repositories changed significantly and three of them are named
C18_FourSignificantRepositories ==
    /\ comparison # <<>>
    /\ Len(Significant(comparison[1].repository_changes)) = 4
    /\ Cardinality(NamedRepositories) = 3

\* C19: in what _calculate_changes returns, contributors.new is current
\* minus previous and contributors.lost is previous minus current;
\* issues.new is current minus previous and issues.continuing is what the two
\* periods share.  Hence new and continuing issues are disjoint and together
\* are the issues of the current period.
C19_SetDifferences ==
    period_changes # <<>> =>
        LET curr_contributors == SetOf(current_period.contributors)
            prev_contributors == SetOf(previous_period.contributors)
            curr_issues       == SetOf(current_period.issues_referenced)
            prev_issues       == SetOf(previous_period.issues_referenced)
            contributors      == period_changes[1].contributors
            issues            == period_changes[1].issues
        IN  /\ \A c \in curr_contributors \cup prev_contributors \cup contributors.new
                          \cup contributors.lost :
                  /\ c \in contributors.new
                        <=> (c \in curr_contributors /\ c \notin prev_contributors)
                  /\ c \in contributors.lost
                        <=> (c \in prev_contributors /\ c \notin curr_contributors)
            /\ \A n \in curr_issues \cup prev_issues \cup issues.new \cup issues.continuing :
                  /\ n \in issues.new <=> (n \in curr_issues /\ n \notin prev_issues)
                  /\ n \in issues.continuing <=> (n \in curr_issues /\ n \in prev_issues)
            /\ issues.new \cap issues.continuing = {}
            /\ issues.new \cup issues.continuing = curr_issues

\* the two periods share a contributor and an issue, and each has a
\* contributor and an issue of its own
C19_Witness ==
    /\ period_changes # <<>>
    /\ period_changes[1].contributors.new = {"cat"}
    /\ period_changes[1].contributors.lost = {"ann"}
    /\ period_changes[1].issues.new = {3}
    /\ period_changes[1].issues.continuing = {2}
    /\ SetOf(previous_period.issues_referenced) = {1, 2}

-----------------------------------------------------------------------------
(* Properties of _calculate_trends (under SpecVelocity) *)

\* the direction from previous to recent, two whole numbers
DirectionOfCounts(recent, previous) ==
    IF recent > previous THEN "up" ELSE IF recent < previous THEN "down" ELSE "stable"

\* the direction from previous to recent, two percentages
DirectionOfPercentages(recent, previous) ==
    IF recent.num * previous.den > previous.num * recent.den THEN "up"
    ELSE IF recent.num * previous.den < previous.num * recent.den THEN "down"
    ELSE "stable"

\* C17: given at least two cycles, each direction comes from the two most
\* recent cycles only (the first two of the list), by strict inequality, and
\* the velocity trend is improving iff commits and quality are both up,
\* declining iff commits are down, and stable otherwise.
C17_TrendFromTwoMostRecent ==
    (trends # <<>> /\ Len(cycle_data_list) >= 2) =>
        LET latest   == cycle_data_list[1]
            before   == cycle_data_list[2]
            computed == trends[1]
        IN  /\ computed.commits.direction
                  = DirectionOfCounts(latest.commits, before.commits)
            /\ computed.issues.direction
                  = DirectionOfCounts(latest.issues_completed, before.issues_completed)
            /\ computed.quality.direction
                  = DirectionOfPercentages(latest.conventional_percentage,
                                           before.conventional_percentage)
            /\ computed.velocity.trend \in {"improving", "declining", "stable"}
            /\ computed.velocity.trend = "improving"
                  <=> (computed.commits.direction = "up"
                          /\ computed.quality.direction = "up")
            /\ computed.velocity.trend = "declining"
                  <=> computed.commits.direction = "down"

\* three cycles, commits and quality up over the last two although the
\* oldest cycle had more commits than either
C17_Witness ==
    /\ trends # <<>>
    /\ Len(cycle_data_list) = 3
    /\ cycle_data_list[3].commits > cycle_data_list[1].commits
    /\ cycle_data_list[1].commits > cycle_data_list[2].commits
    /\ trends[1].quality.direction = "up"
    /\ trends[1].velocity.trend = "improving"

-----------------------------------------------------------------------------
(* Properties of the merge of the repositories (under SpecMerge) *)

\* the repositories with commits that a loop has met, pending being the
\* ones it has yet to meet
MergedRepos(pending) == {repo \in Repos \ pending : repo_analyses[repo] # <<>>}

\* the sum of amounts[repo] over the repositories of S
RECURSIVE SumOver(_, _)
SumOver(S, amounts) ==
    IF S = {} THEN 0
    ELSE LET repo == CHOOSE r \in S : TRUE
         IN  amounts[repo] + SumOver(S \ {repo}, amounts)

\* the sum over the repositories of S of a number of their analyses
SumOfField(S, field) ==
    SumOver(S, [repo \in Repos |-> IF repo \in S THEN repo_analyses[repo][1][field] ELSE 0])

\* the keys of a dict of the analyses of the repositories of S
KeysOfField(S, field) == UNION { Keys(repo_analyses[repo][1][field]) : repo \in S }

\* items is a dict, and the sum of a histogram of the analyses of the
\* repositories of S
IsSumOfHistograms(items, S, field) ==
    /\ \A i, j \in 1..Len(items) : items[i].key = items[j].key => i = j
    /\ Keys(items) = KeysOfField(S, field)
    /\ \A k \in Keys(items) :
          ItemCount(items, k)
              = SumOver(S, [repo \in Repos |->
                              IF repo \in S
                              THEN ItemCount(repo_analyses[repo][1][field], k)
                              ELSE 0])

\* what the totals, the histogram of commit types and the issue set of an
\* aggregate are when it holds the repositories of S
IsAggregateOf(acc, S) ==
    /\ acc.commits = SumOfField(S, "total_commits")
    /\ acc.conventional_commits = SumOfField(S, "conventional_commits")
    /\ acc.breaking_changes
          = SumOver(S, [repo \in Repos |->
                          IF repo \in S THEN Len(repo_analyses[repo][1].breaking_changes)
                          ELSE 0])
    /\ IsSumOfHistograms(acc.commit_types, S, "commit_types")
    /\ acc.issues_referenced = KeysOfField(S, "issue_references")
    /\ DOMAIN acc.repositories = S

\* the aggregate of analyze_period is that of the repositories of S
IsPeriodAggregateOf(acc, S) ==
    /\ IsAggregateOf(acc, S)
    /\ acc.contributors = KeysOfField(S, "authors")
    /\ IsSumOfHistograms(acc.commit_scopes, S, "commit_scopes")
    /\ \A repo \in S : acc.repositories[repo] = repo_analyses[repo][1]

\* the aggregate of analyze_cycle is that of the repositories of S
IsCycleAggregateOf(acc, S) ==
    /\ IsAggregateOf(acc, S)
    /\ IsSumOfHistograms(acc.contributors, S, "authors")
    /\ IsSumOfHistograms(acc.daily_commits, S, "daily_commits")
    /\ \A repo \in S :
          /\ acc.repositories[repo].commits = repo_analyses[repo][1].total_commits
          /\ acc.repositories[repo].conventional_commits
                = repo_analyses[repo][1].conventional_commits

\* C20: whatever the order in which the repositories are processed, the
\* aggregate of the period and that of the cycle are, at every point, the
\* sums, the summed histograms and the unions of the analyses of the
\* repositories merged so far, read as dicts and sets; so is what
\* analyze_period and analyze_cycle return, which depends on the set of
\* repositories alone.
C20_MergeOrderIndependent ==
    /\ IsPeriodAggregateOf(period_data, MergedRepos(period_pending))
    /\ IsCycleAggregateOf(cycle_data, MergedRepos(cycle_pending))
    /\ period_returned # <<>> => IsPeriodAggregateOf(period_returned[1], MergedRepos({}))
    /\ cycle_returned # <<>> =>
          /\ IsCycleAggregateOf(cycle_returned[1], MergedRepos({}))
          /\ cycle_returned[1].issues_completed
                = Cardinality(KeysOfField(MergedRepos({}), "issue_references"))

\* both loops have returned; two repositories had commits, of a type and by
\* an author they share, and one had none
C20_Witness ==
    /\ period_returned # <<>>
    /\ cycle_returned # <<>>
    /\ Cardinality(MergedRepos({})) = 2
    /\ \E k \in Keys(period_returned[1].commit_types) :
          \A repo \in MergedRepos({}) : k \in Keys(repo_analyses[repo][1].commit_types)
    /\ \E k \in Keys(cycle_returned[1].contributors) :
          /\ \A repo \in MergedRepos({}) : k \in Keys(repo_analyses[repo][1].authors)
          /\ ItemCount(cycle_returned[1].contributors, k) >= 2
    /\ \E a, b \in MergedRepos({}) : repo_analyses[a] # repo_analyses[b]

-----------------------------------------------------------------------------
(* The order and the number of the findings of analyze_flow_health (under    *)
(* SpecFlow)                                                                 *)

\* the order in which the four rules are evaluated
RuleOrder == <<"ready_pileup", "no_reviews", "review_bottleneck", "grooming_needed">>

RuleRank(type) == CHOOSE i \in 1..Len(RuleOrder) : RuleOrder[i] = type

\* the recommendation that goes with a bottleneck of each type
RecommendationFor ==
    [ready_pileup      |-> "Pick up more 'Ready' work - you have {} groomed issues waiting",
     no_reviews        |-> "No issues in review - remember to create PRs when work is done",
     review_bottleneck |-> "Review bottleneck - prioritize reviewing the {} pending PRs",
     grooming_needed   |-> "Need grooming session - move backlog issues to 'Ready'"]

WipRecommendationText ==
    "WIP too high ({} items) - focus on finishing before starting new work"

\* C24: the bottlenecks come in the order ready_pileup, no_reviews,
\* review_bottleneck, grooming_needed; the i-th recommendation is that of the
\* i-th bottleneck; and there is one recommendation more than bottlenecks, the
\* WIP recommendation coming last, when wip_health is overloaded, and as many
\* as bottlenecks otherwise.
C24_FindingsInRuleOrder ==
    health # <<>> =>
        LET found == health[1].bottlenecks
            recs  == health[1].recommendations
        IN  /\ \A i \in 1..Len(found) : found[i].type \in DOMAIN RecommendationFor
            /\ \A i, j \in 1..Len(found) :
                  i < j => RuleRank(found[i].type) < RuleRank(found[j].type)
            /\ Len(recs) >= Len(found)
            /\ \A i \in 1..Len(found) : recs[i].text = RecommendationFor[found[i].type]
            /\ IF health[1].wip_health = "overloaded"
               THEN /\ Len(recs) = Len(found) + 1
                    /\ recs[Len(recs)].text = WipRecommendationText
               ELSE Len(recs) = Len(found)

\* ready_pileup and review_bottleneck fired, with the WIP overloaded: three
\* recommendations
C24_Witness ==
    /\ health # <<>>
    /\ Len(health[1].bottlenecks) = 2
    /\ health[1].bottlenecks[1].type = "ready_pileup"
    /\ health[1].bottlenecks[2].type = "review_bottleneck"
    /\ Len(health[1].recommendations) = 3

\* the types of the bottlenecks reported
FiredTypes == {health[1].bottlenecks[i].type : i \in 1..Len(health[1].bottlenecks)}

\* C28: never more than two bottlenecks; ready_pileup and grooming_needed
\* never together, nor no_reviews and review_bottleneck; and whenever
\* no_reviews or review_bottleneck fires, wip_health is overloaded.
C28_AtMostTwoBottlenecks ==
    health # <<>> =>
        /\ Len(health[1].bottlenecks) <= 2
        /\ ~({"ready_pileup", "grooming_needed"} \subseteq FiredTypes)
        /\ ~({"no_reviews", "review_bottleneck"} \subseteq FiredTypes)
        /\ (FiredTypes \cap {"no_reviews", "review_bottleneck"} # {})
              => health[1].wip_health = "overloaded"

\* no_reviews with exactly six in progress, next to grooming_needed
C28_Witness ==
    /\ health # <<>>
    /\ FiredTypes = {"no_reviews", "grooming_needed"}
    /\ Get(counts, "in_progress", 0) = 6
    /\ health[1].wip_health = "overloaded"

-----------------------------------------------------------------------------
(* The ranked and cut histograms of analyze_commits (under SpecAgg) *)

\* the scopes of the parsed commits, in the order of the commit list
RECURSIVE ScopesSeen(_)
ScopesSeen(parsed_commits) ==
    IF parsed_commits = <<>> THEN <<>>
    ELSE (IF Head(parsed_commits).conventional # <<>>
             /\ Head(parsed_commits).conventional[1].scope # <<>>
          THEN << Head(parsed_commits).conventional[1].scope[1] >>
          ELSE <<>>)
         \o ScopesSeen(Tail(parsed_commits))

\* the issue numbers the parsed commits name, in the order of the commit list
RECURSIVE IssuesSeen(_)
IssuesSeen(parsed_commits) ==
    IF parsed_commits = <<>> THEN <<>>
    ELSE Head(parsed_commits).issues \o IssuesSeen(Tail(parsed_commits))

\* how often key is seen, and where first
TimesSeen(seen, key) == Cardinality({i \in 1..Len(seen) : seen[i] = key})
FirstSeen(seen, key) ==
    CHOOSE i \in 1..Len(seen) : seen[i] = key /\ \A j \in 1..(i - 1) : seen[j] # key

\* key a ranks before key b: seen more often, or as often and first seen earlier
RanksBefore(seen, a, b) ==
    \/ TimesSeen(seen, a) > TimesSeen(seen, b)
    \/ /\ TimesSeen(seen, a) = TimesSeen(seen, b)
       /\ FirstSeen(seen, a) < FirstSeen(seen, b)

\* kept holds at most n of the keys seen, each once and with its true count,
\* in rank order, and every key it holds ranks before every key it leaves out
KeepsTheTop(kept, seen, n) ==
    /\ Len(kept) <= n
    /\ \A i \in 1..Len(kept) :
          /\ \E j \in 1..Len(seen) : seen[j] = kept[i].key
          /\ kept[i].n = TimesSeen(seen, kept[i].key)
    /\ \A i, j \in 1..Len(kept) :
          i < j => RanksBefore(seen, kept[i].key, kept[j].key)
    /\ \A i \in 1..Len(kept), j \in 1..Len(seen) :
          (\A k \in 1..Len(kept) : kept[k].key # seen[j])
              => /\ kept[i].n >= TimesSeen(seen, seen[j])
                 /\ RanksBefore(seen, kept[i].key, seen[j])

\* C25: commit_scopes holds at most 10 scopes and issue_references at most 20
\* issue numbers; every key kept has a count >= that of every key dropped;
\* each count kept is the key's count over the whole input; and among keys
\* with equal counts the one first seen earlier is ranked, and kept, first.
C25_TopScopesAndIssues ==
    \A r \in 1..Len(results) :
        /\ KeepsTheTop(results[r].value.commit_scopes,
                       ScopesSeen(results[r].value.commits), 10)
        /\ KeepsTheTop(results[r].value.issue_references,
                       IssuesSeen(results[r].value.commits), 20)

\* twelve scopes and twenty-four issues seen once each, then the last scope
\* and the last issue once more: both are kept, in first place, and two
\* scopes and four issues seen before them are dropped
C25_Witness ==
    /\ results # <<>>
    /\ Len(commits) = 13
    /\ Len(results[1].value.commit_scopes) = 10
    /\ results[1].value.commit_scopes[1] = [key |-> <<"l">>, n |-> 2]
    /\ Len(results[1].value.issue_references) = 20
    /\ results[1].value.issue_references[1] = [key |-> 24, n |-> 2]
    /\ results[1].value.issue_references[20].key = 19

-----------------------------------------------------------------------------
(* The two status classifiers on the same issue (under SpecStatus) *)

\* C27: once StatusAnalyzer.extract_status and the daily summary's
\* extract_status_from_labels have both classified the same issue dict,
\* they have returned the same status.
C27_ClassifiersAgree ==
    (status # NotRun /\ summary_status # NotRun) => status = summary_status

-----------------------------------------------------------------------------
(* The groups of organize_by_repository (under SpecOrganizer) *)

\* the key an issue is filed under
RepositoryOf(iss) == IF "repository" \in DOMAIN iss THEN iss.repository ELSE "unknown"

\* the issues of issues_given filed under key, in the order given
IssuesOf(key) == SelectSeq(issues_given, LAMBDA iss : RepositoryOf(iss) = key)

\* the dict that was returned
Groups == organized[1]

\* C23: organize_by_repository partitions its input: the keys of the result
\* are the repositories of the input issues ("unknown" for an issue without
\* the field), each once; the group of a key holds exactly the input issues of
\* that repository, in input order, so every input issue is in exactly one
\* group and no group is empty; an empty input gives an empty mapping.
C23_PartitionByRepository ==
    organized # <<>> =>
        /\ {Groups[k].key : k \in 1..Len(Groups)}
              = {RepositoryOf(issues_given[i]) : i \in 1..Len(issues_given)}
        /\ \A k, l \in 1..Len(Groups) :
              Groups[k].key = Groups[l].key => k = l
        /\ \A k \in 1..Len(Groups) :
              /\ Groups[k].value = IssuesOf(Groups[k].key)
              /\ Groups[k].value # <<>>
        /\ issues_given = <<>> => Groups = <<>>

\* a list with two issues of one repository around an issue of another, and
\* an issue without the field, has been organized
C23_Witness ==
    /\ organized # <<>>
    /\ Len(Groups) >= 3
    /\ \E k \in 1..Len(Groups) : Len(Groups[k].value) >= 2
    /\ \E i \in 1..Len(issues_given) : "repository" \notin DOMAIN issues_given[i]
    /\ \E i, j \in 1..Len(issues_given) :
          /\ i + 1 < j
          /\ RepositoryOf(issues_given[i]) = RepositoryOf(issues_given[j])
          /\ RepositoryOf(issues_given[i + 1]) # RepositoryOf(issues_given[i])

-----------------------------------------------------------------------------
(* The snapshots of the DataCollector (under SpecCollector) *)

\* the last list_snapshots() was for every label, and its value
ListedAll == answer # <<>> /\ answer[1].asked = "list_snapshots" /\ answer[1].label = <<>>

Listing == answer[1].value

\* the last two create_snapshot calls had the same label and the same date
LastTwoAlike ==
    /\ Len(snapshot_calls) >= 2
    /\ snapshot_calls[Len(snapshot_calls)].label
          = snapshot_calls[Len(snapshot_calls) - 1].label
    /\ snapshot_calls[Len(snapshot_calls)].date
          = snapshot_calls[Len(snapshot_calls) - 1].date

\* C21: after two successive create_snapshot calls with the same label and
\* the same date, list_snapshots() returns at least two entries and holds the
\* path returned by each of the two calls.
C21_LaterSnapshotKeepsEarlier ==
    (ListedAll /\ LastTwoAlike) =>
        /\ Len(Listing) >= 2
        /\ \A n \in {Len(snapshot_calls) - 1, Len(snapshot_calls)} :
              \E k \in 1..Len(Listing) : Listing[k] = snapshot_calls[n].path

\* the date and the clock reading stored in the snapshot file path
DateOf(path) == base_data_dir[path].data.metadata.snapshot_date
TakenAt(path) == base_data_dir[path].data.metadata.timestamp

\* the snapshot under path a was taken before the one under path b: on an
\* earlier date, or earlier on the same date
TakenBefore(a, b) ==
    \/ StrLess(DateOf(a), DateOf(b))
    \/ DateOf(a) = DateOf(b) /\ TakenAt(a) < TakenAt(b)

\* C22: list_snapshots returns the stored snapshots, never a latest-* link,
\* in chronological order: of any two of them the one taken earlier (earlier
\* date, or earlier on the same date) is listed first.
C22_ListedChronologically ==
    (answer # <<>> /\ answer[1].asked = "list_snapshots") =>
        /\ \A k \in 1..Len(Listing) :
              /\ base_data_dir[Listing[k]].kind = "file"
              /\ ~StartsAt(Listing[k], 1, LatestPrefix)
        /\ \A k, l \in 1..Len(Listing) :
              TakenBefore(Listing[k], Listing[l]) => k < l

\* the create_snapshot calls made with label, as indexes of snapshot_calls
CallsWith(label) == {n \in 1..Len(snapshot_calls) : snapshot_calls[n].label = label}

\* the label a load_snapshot identifier of the two "latest" forms stands for
LabelAskedFor ==
    IF answer[1].identifier.value \in LabelIdentifiers
    THEN answer[1].identifier.value
    ELSE SubSeq(answer[1].identifier.value, Len(LatestPrefix) + 1,
                Len(answer[1].identifier.value))

\* the last answer is that of load_snapshot(L) or load_snapshot("latest-" + L)
\* for one of the three labels
LoadedLatest ==
    /\ answer # <<>>
    /\ answer[1].asked = "load_snapshot"
    /\ answer[1].identifier.kind = "str"
    /\ answer[1].identifier.value \in LabelIdentifiers \cup LatestIdentifiers

\* C29: after any sequence of create_snapshot calls with labels sod, eod and
\* snapshot, load_snapshot(L) and load_snapshot("latest-" + L) return, for a
\* label L that has been used, the data written by the most recent
\* create_snapshot call with label L, whatever calls with other labels came
\* after it.
C29_LatestIsLastOfLabel ==
    (LoadedLatest /\ CallsWith(LabelAskedFor) # {}) =>
        /\ answer[1].outcome = "returned"
        /\ \E n \in CallsWith(LabelAskedFor) :
              /\ \A later \in CallsWith(LabelAskedFor) : later <= n
              /\ answer[1].value = snapshot_calls[n].data

\* the latest sod snapshot is loaded after two sod snapshots of different
\* dates and a later eod snapshot
C29_Witness ==
    /\ LoadedLatest
    /\ LabelAskedFor = <<"s", "o", "d">>
    /\ Len(snapshot_calls) = 3
    /\ snapshot_calls[1].label = <<"s", "o", "d">>
    /\ snapshot_calls[2].label = <<"s", "o", "d">>
    /\ snapshot_calls[2].date # snapshot_calls[1].date
    /\ snapshot_calls[3].label = <<"e", "o", "d">>
    /\ answer[1].outcome = "returned"
    /\ answer[1].value = snapshot_calls[2].data

-----------------------------------------------------------------------------
(* The server processes of the dashboard manager (under SpecDashboard) *)

\* no invocation is inside a call
AllAtRest == \A c \in Invocations : calls[c].op = "none"

\* the PID file names the process server
Recorded(server) == pid_file # <<>> /\ ReadPid(pid_file) = server

\* C30: under every interleaving of the invocations of start and stop, at
\* most one spawned server process is alive at a time, and once the
\* invocations have returned every server process that is alive is the one
\* the PID file points at.
C30_OneRecordedServer ==
    /\ Cardinality(alive) <= 1
    /\ AllAtRest => \A server \in alive : Recorded(server)

-----------------------------------------------------------------------------
(* The issues counted for a period and for a cycle (under SpecMerge) *)

\* the distinct issue numbers the commits of an analysis refer to
IssuesOfAnalysis(analysis) ==
    UNION { { analysis.commits[i].issues[k] : k \in 1..Len(analysis.commits[i].issues) } :
            i \in 1..Len(analysis.commits) }

\* the distinct issue numbers the commits analysed for the repositories of S
\* refer to
IssuesNamed(S) == UNION { IssuesOfAnalysis(repo_analyses[repo][1]) : repo \in S }

\* C26: the number of issues attributed to a cycle (issues_completed) and to
\* a period (the length of issues_referenced) is the number of distinct issue
\* numbers referenced by the commits analysed for it, however many they are.
C26_CountsEveryDistinctIssue ==
    /\ cycle_returned # <<>> =>
          cycle_returned[1].issues_completed = Cardinality(IssuesNamed(MergedRepos({})))
    /\ period_returned # <<>> =>
          Cardinality(period_returned[1].issues_referenced)
              = Cardinality(IssuesNamed(MergedRepos({})))

=============================================================================
